---- MODULE Spec2Model ----
(***************************************************************************)
(* Compile-and-repair pipeline of klumo/beeno: source classification,      *)
(* content-addressed translation cache, provider fallback routing and the  *)
(* compile coordinator (crates beeno-compiler and beeno-llm).              *)
(*                                                                         *)
(* Strings are sequences of symbols.  A symbol is one character, or one    *)
(* fixed multi-character substring written as a single element (the cache  *)
(* key separators, the provider tags, an opaque word of source text).      *)
(* Option<T> is a sequence of length 0 (None) or 1 (Some).                 *)
(***************************************************************************)
EXTENDS Integers, Sequences, FiniteSets, TLC

VARIABLES
    cache,   \* FileCompileCache: file name (key) -> file content
    last,    \* the latest compile call: request, returned value, I/O trace
    calls,   \* number of compile calls made so far
    rt,      \* the latest call of the ProviderRouter: inputs, chain, result
    nz,      \* the latest call of normalize_js_output: raw text, result
    hist,    \* a bounded history: cap, items, and everything pushed so far
    ctx,     \* the latest call of build_repl_scope_context: inputs, result
    session, \* REPL session: known_bindings, statement_history, js_history
    turn,    \* REPL: what happened to the latest input line
    run,     \* whole-file run with self-heal: attempts, outcome
    race     \* two processes on one cache file: its bytes, their positions

compiler_vars == <<cache, last, calls>>
router_vars == <<rt, nz>>
helper_vars == <<hist, ctx>>
repl_vars == <<session, turn>>
run_vars == <<run>>
race_vars == <<race>>
vars == <<cache, last, calls, rt, nz, hist, ctx, session, turn, run, race>>

\* ------------------------------------------------------------------ bounds
MaxCalls == 2
MaxIdLen == 3
MaxRawPieces == 5
MaxCap == 2
MaxEntries == 2

\* ----------------------------------------------------------------- options
None == <<>>
Some(x) == <<x>>
IsSome(o) == Len(o) = 1
Unwrap(o) == o[1]
UnwrapOr(o, d) == IF IsSome(o) THEN o[1] ELSE d

\* ----------------------------------------------------------------- strings
UpperChars == <<"A","B","C","D","E","F","G","H","I","J","K","L","M",
                "N","O","P","Q","R","S","T","U","V","W","X","Y","Z">>
LowerChars == <<"a","b","c","d","e","f","g","h","i","j","k","l","m",
                "n","o","p","q","r","s","t","u","v","w","x","y","z">>

to_ascii_lowercase_char(c) ==
    IF \E i \in 1..26 : UpperChars[i] = c
    THEN LowerChars[CHOOSE i \in 1..26 : UpperChars[i] = c]
    ELSE c

to_ascii_lowercase(s) == [i \in 1..Len(s) |-> to_ascii_lowercase_char(s[i])]

\* slip: str::split_once, which splits at the first '.'
FirstDot(s) ==
    IF \E i \in 1..Len(s) : s[i] = "."
    THEN CHOOSE i \in 1..Len(s) : s[i] = "." /\ \A j \in 1..(i-1) : s[j] # "."
    ELSE 0

\* str::rsplit_once('.'): index of the last '.', 0 when there is none
LastDot(s) ==
    IF \E i \in 1..Len(s) : s[i] = "."
    THEN CHOOSE i \in 1..Len(s) : s[i] = "." /\ \A j \in (i+1)..Len(s) : s[j] # "."
    ELSE 0

STR_js == <<"j","s">>
STR_mjs == <<"m","j","s">>
STR_cjs == <<"c","j","s">>
STR_javascript == <<"j","a","v","a","s","c","r","i","p","t">>
STR_ts == <<"t","s">>
STR_typescript == <<"t","y","p","e","s","c","r","i","p","t">>
STR_auto == <<"a","u","t","o">>
STR_unknown == <<"u","n","k","n","o","w","n">>

PROMPT_VERSION == <<"m1-v1">>

\* -------------------------------------------------------------- SourceKind
KindJavaScript == [tag |-> "JavaScript", v |-> <<>>]
KindTypeScript == [tag |-> "TypeScript", v |-> <<>>]
KindAuto == [tag |-> "Auto", v |-> <<>>]
KindUnknown(s) == [tag |-> "Unknown", v |-> s]

from_hint(hint) ==
    LET lower == to_ascii_lowercase(hint) IN
    IF lower \in {STR_js, STR_mjs, STR_cjs, STR_javascript} THEN KindJavaScript
    ELSE IF lower \in {STR_ts, STR_typescript} THEN KindTypeScript
    ELSE IF lower = STR_auto THEN KindAuto
    ELSE KindUnknown(lower)

infer_from_source_id(source_id) ==
    LET d == LastDot(source_id) IN
    IF d # 0 THEN from_hint(SubSeq(source_id, d + 1, Len(source_id)))
    ELSE KindUnknown(STR_unknown)

as_hint(kind) ==
    CASE kind.tag = "JavaScript" -> STR_javascript
      [] kind.tag = "TypeScript" -> STR_typescript
      [] kind.tag = "Unknown" -> kind.v
      [] kind.tag = "Auto" -> STR_auto

\* ---------------------------------------------------------------- Provider
Ollama == "Ollama"
OpenAiCompatible == "OpenAiCompatible"
Provider == {Ollama, OpenAiCompatible}

SelAuto == "Auto"
SelOllama == "Ollama"
SelOpenAiCompatible == "OpenAiCompatible"
ProviderSelection == {SelAuto, SelOllama, SelOpenAiCompatible}

format_provider(provider) ==
    IF provider = Ollama THEN <<"ollama">> ELSE <<"openai-compatible">>

\* slip: the tag is compared with the variant name, not with what
\* format_provider writes
parse_provider_variant_name(value) ==
    IF value = <<"Ollama">> THEN Ollama ELSE OpenAiCompatible

parse_provider(value) ==
    IF value = <<"ollama">> THEN Ollama ELSE OpenAiCompatible

\* ---------------------------------------------------------- CompilerRouter
resolved_kind(req) ==
    LET k == UnwrapOr(req.kind_hint, KindAuto) IN
    IF k.tag = "Auto" THEN infer_from_source_id(req.source_id) ELSE k

\* the language-hint string sent to providers and hashed into the key
effective_hint(req) == UnwrapOr(req.language_hint, as_hint(resolved_kind(req)))

\* slip: the kind hint is tested before it is resolved
needs_llm_unresolved(req) ==
    req.force_llm \/ UnwrapOr(req.kind_hint, KindAuto).tag # "JavaScript"

needs_llm(req) == req.force_llm \/ resolved_kind(req).tag # "JavaScript"

SEP_source_id == <<"\n--source-id--\n">>
SEP_kind == <<"\n--kind--\n">>
SEP_provider == <<"\n--provider--\n">>
SEP_model == <<"\n--model--\n">>
SEP_prompt_version == <<"\n--prompt-version--\n">>

\* The SHA-256 digest is taken to be collision-free: a key is identified
\* with the byte stream that is fed to the hasher.
cache_key(source_text, source_id, kind_hint, provider, model) ==
    source_text \o SEP_source_id \o source_id \o SEP_kind \o kind_hint
        \o SEP_provider \o format_provider(provider) \o SEP_model \o model
        \o SEP_prompt_version \o PROMPT_VERSION

\* ------------------------------------------------------- output normalizing
WhiteSpace == {" ", "\n", "\t"}
\* "BQ" stands for the backquote character
FENCE == <<"BQ","BQ","BQ">>

RECURSIVE TrimStart(_)
TrimStart(s) ==
    IF s # <<>> /\ Head(s) \in WhiteSpace THEN TrimStart(Tail(s)) ELSE s

RECURSIVE TrimEnd(_)
TrimEnd(s) ==
    IF s # <<>> /\ s[Len(s)] \in WhiteSpace
    THEN TrimEnd(SubSeq(s, 1, Len(s) - 1)) ELSE s

Trim(s) == TrimEnd(TrimStart(s))

\* str::find: 1-based index of the first occurrence of pat, 0 when absent
Find(s, pat) ==
    LET hits == {i \in 1..(Len(s) - Len(pat) + 1) :
                    SubSeq(s, i, i + Len(pat) - 1) = pat} IN
    IF hits = {} THEN 0 ELSE CHOOSE i \in hits : \A j \in hits : i <= j

Ok(v) == [ok |-> TRUE, val |-> v, error |-> ""]
Err(e) == [ok |-> FALSE, val |-> <<>>, error |-> e]

\* slip: the interior starts right after the opening fence, so the rest of
\* the fence line (the language tag) is kept
extract_fenced_code_with_tag(input) ==
    LET interior(body, end) ==
            IF end = 0 THEN None ELSE Some(SubSeq(body, 1, end - 1))
        after_start(remainder) == interior(remainder, Find(remainder, FENCE))
        from_start(start) ==
            IF start = 0 THEN None
            ELSE after_start(SubSeq(input, start + 3, Len(input)))
    IN from_start(Find(input, FENCE))

extract_fenced_code(input) ==
    LET interior(body, end) ==
            IF end = 0 THEN None ELSE Some(SubSeq(body, 1, end - 1))
        after_newline(body) == interior(body, Find(body, FENCE))
        after_fence(remainder, nl) ==
            IF nl = 0 THEN None
            ELSE after_newline(SubSeq(remainder, nl + 1, Len(remainder)))
        after_start(remainder) == after_fence(remainder, Find(remainder, <<"\n">>))
        from_start(start) ==
            IF start = 0 THEN None
            ELSE after_start(SubSeq(input, start + 3, Len(input)))
    IN from_start(Find(input, FENCE))

\* slip: a fenced block is returned even when its interior is empty
normalize_js_output_keeping_empty_block(raw) ==
    LET of_block(trimmed, block) ==
            IF IsSome(block) THEN Ok(Trim(Unwrap(block)))
            ELSE Ok(trimmed)
        of_trimmed(trimmed) ==
            IF trimmed = <<>> THEN Err("LLM returned empty output")
            ELSE of_block(trimmed, extract_fenced_code(trimmed))
    IN of_trimmed(Trim(raw))

normalize_js_output(raw) ==
    LET of_interior(interior) ==
            IF interior = <<>> THEN Err("LLM returned empty fenced output")
            ELSE Ok(interior)
        of_block(trimmed, block) ==
            IF IsSome(block) THEN of_interior(Trim(Unwrap(block)))
            ELSE Ok(trimmed)
        of_trimmed(trimmed) ==
            IF trimmed = <<>> THEN Err("LLM returned empty output")
            ELSE of_block(trimmed, extract_fenced_code(trimmed))
    IN of_trimmed(Trim(raw))

\* ---------------------------------------------------------- ProviderRouter
ollama_model == <<"qwen">>
openai_model == <<"gpt">>

Descriptor(p, m) == [provider |-> p, model |-> m]

\* slip: under Auto the cloud provider is put before the local one
candidate_chain_cloud_first(selection, reachable) ==
    CASE selection = SelOllama -> <<Descriptor(Ollama, ollama_model)>>
      [] selection = SelOpenAiCompatible ->
            <<Descriptor(OpenAiCompatible, openai_model)>>
      [] selection = SelAuto ->
            IF reachable
            THEN <<Descriptor(OpenAiCompatible, openai_model),
                   Descriptor(Ollama, ollama_model)>>
            ELSE <<Descriptor(OpenAiCompatible, openai_model)>>

\* reachable: the answer of ReachabilityProbe::ollama_reachable, consulted
\* only under Auto
candidate_chain(selection, reachable) ==
    CASE selection = SelOllama -> <<Descriptor(Ollama, ollama_model)>>
      [] selection = SelOpenAiCompatible ->
            <<Descriptor(OpenAiCompatible, openai_model)>>
      [] selection = SelAuto ->
            IF reachable
            THEN <<Descriptor(Ollama, ollama_model),
                   Descriptor(OpenAiCompatible, openai_model)>>
            ELSE <<Descriptor(OpenAiCompatible, openai_model)>>

\* one I/O event of a compile call
Event(op, key, provider, model, ok, js) ==
    [op |-> op, key |-> key, provider |-> provider, model |-> model,
     ok |-> ok, js |-> js]

ProbeEvents(selection, reachable) ==
    IF selection = SelAuto
    THEN <<Event("probe", <<>>, Ollama, <<>>, reachable, <<>>)>>
    ELSE <<>>

\* slip: the client is called with the configured model of the provider,
\* whatever the override is
call_provider_configured_model(provider, client, model_override) ==
    LET response(model, n) ==
            [ok |-> n.ok, javascript |-> n.val, provider |-> provider,
             model |-> model, error |-> n.error]
        with_model(model) ==
            IF ~client.ok
            THEN [ok |-> FALSE, javascript |-> <<>>, provider |-> provider,
                  model |-> model, error |-> client.error]
            ELSE response(model, normalize_js_output(client.val))
    IN with_model(IF provider = Ollama THEN ollama_model ELSE openai_model)

\* client: the Result<String> that the LlmClient of the provider returns
call_provider(provider, client, model_override) ==
    LET response(model, n) ==
            [ok |-> n.ok, javascript |-> n.val, provider |-> provider,
             model |-> model, error |-> n.error]
        with_model(model) ==
            IF ~client.ok
            THEN [ok |-> FALSE, javascript |-> <<>>, provider |-> provider,
                  model |-> model, error |-> client.error]
            ELSE response(model, normalize_js_output(client.val))
    IN with_model(UnwrapOr(model_override,
                           IF provider = Ollama THEN ollama_model
                           ELSE openai_model))

\* slip: the error text of the candidate is not carried over
Attempt_without_text(provider, error) ==
    [provider |-> provider, stage |-> "translate", error |-> "translate failed"]

Attempt(provider, error) ==
    [provider |-> provider, stage |-> "translate", error |-> error]

\* slip: the response is tagged with the configured model of the candidate,
\* not with the model the call used
RECURSIVE translate_loop_configured_model(_, _, _, _, _, _)
translate_loop_configured_model(chain, i, clients, model_override, attempts, log) ==
    LET called(entry, r, log2) ==
            IF r.ok
            THEN [ok |-> TRUE, javascript |-> r.javascript,
                  provider |-> r.provider, model |-> entry.model,
                  attempts |-> <<>>, log |-> log2]
            ELSE translate_loop_configured_model(
                    chain, i + 1, clients, model_override,
                    Append(attempts, Attempt(entry.provider, r.error)), log2)
        call(entry, r) ==
            called(entry, r,
                   Append(log, Event("call", <<>>, entry.provider, r.model,
                                     r.ok, r.javascript)))
        try(entry) ==
            call(entry, call_provider(entry.provider, clients[entry.provider],
                                      model_override))
    IN IF i > Len(chain)
       THEN [ok |-> FALSE, javascript |-> <<>>, provider |-> Ollama,
             model |-> <<>>, attempts |-> attempts, log |-> log]
       ELSE try(chain[i])

RECURSIVE translate_loop(_, _, _, _, _, _)
translate_loop(chain, i, clients, model_override, attempts, log) ==
    LET called(entry, r, log2) ==
            IF r.ok
            THEN [ok |-> TRUE, javascript |-> r.javascript,
                  provider |-> r.provider, model |-> r.model,
                  attempts |-> <<>>, log |-> log2]
            ELSE translate_loop(chain, i + 1, clients, model_override,
                                Append(attempts,
                                       Attempt(entry.provider, r.error)),
                                log2)
        call(entry, r) ==
            called(entry, r,
                   Append(log, Event("call", <<>>, entry.provider, r.model,
                                     r.ok, r.javascript)))
        try(entry) ==
            call(entry, call_provider(entry.provider, clients[entry.provider],
                                      model_override))
    IN IF i > Len(chain)
       THEN [ok |-> FALSE, javascript |-> <<>>, provider |-> Ollama,
             model |-> <<>>, attempts |-> attempts, log |-> log]
       ELSE try(chain[i])

translate(selection, reachable, clients, model_override) ==
    translate_loop(candidate_chain(selection, reachable), 1, clients,
                   model_override, <<>>, ProbeEvents(selection, reachable))

\* -------------------------------------------------------- FileCompileCache
\* A cache file holds the JSON of a CachedResult ("payload") or something
\* else: bytes that do not parse ("garbage"), the beginning of a payload
\* ("truncated"), or it cannot be read at all ("unreadable").
PayloadFile(javascript, provider, model, prompt_version) ==
    [kind |-> "payload", javascript |-> javascript, provider |-> provider,
     model |-> model, prompt_version |-> prompt_version]

DamagedFile(kind) ==
    [kind |-> kind, javascript |-> <<>>, provider |-> None, model |-> None,
     prompt_version |-> <<>>]

DamageKinds == {"garbage", "truncated", "unreadable"}

CompileResult(javascript, provider, model, prompt_version, cache_hit) ==
    [javascript |-> javascript, provider |-> provider, model |-> model,
     prompt_version |-> prompt_version, cache_hit |-> cache_hit]

\* fs::read_to_string(path).ok()
read_to_string(c, key) ==
    IF key \in DOMAIN c /\ c[key].kind # "unreadable" THEN Some(c[key]) ELSE None

\* slip: a lenient parse that fills the fields it cannot read with defaults
from_str_lenient(raw) == Some(raw)

\* serde_json::from_str::<CachedResult>(raw).ok()
from_str(raw) == IF raw.kind = "payload" THEN Some(raw) ELSE None

get(c, key) ==
    LET result(f) ==
            Some(CompileResult(f.javascript,
                               IF IsSome(f.provider)
                               THEN Some(parse_provider(Unwrap(f.provider)))
                               ELSE None,
                               f.model, f.prompt_version, TRUE))
        of_parsed(parsed) ==
            IF ~IsSome(parsed) THEN None ELSE result(Unwrap(parsed))
        of_raw(raw) ==
            IF ~IsSome(raw) THEN None ELSE of_parsed(from_str(Unwrap(raw)))
    IN of_raw(read_to_string(c, key))

WriteFile(c, key, file) ==
    [k \in (DOMAIN c) \cup {key} |-> IF k = key THEN file ELSE c[k]]

\* io: what the file system does with the write
\*   "ok"          the file is written
\*   "mkdir_fails" create_dir_all fails
\*   "write_fails" fs::write created (truncated) the file and then failed
PutIo == {"ok", "mkdir_fails", "write_fails"}

\* slip: the payload is built without the provider tag
put_without_provider(c, key, result, io) ==
    LET payload == PayloadFile(result.javascript, None, result.model,
                               result.prompt_version) IN
    CASE io = "mkdir_fails" ->
            [ok |-> FALSE, error |-> "failed creating cache dir", cache |-> c]
      [] io = "write_fails" ->
            [ok |-> FALSE, error |-> "failed writing cache file",
             cache |-> WriteFile(c, key, DamagedFile("truncated"))]
      [] io = "ok" ->
            [ok |-> TRUE, error |-> "", cache |-> WriteFile(c, key, payload)]

put(c, key, result, io) ==
    LET payload == PayloadFile(result.javascript,
                               IF IsSome(result.provider)
                               THEN Some(format_provider(Unwrap(result.provider)))
                               ELSE None,
                               result.model, result.prompt_version) IN
    CASE io = "mkdir_fails" ->
            [ok |-> FALSE, error |-> "failed creating cache dir", cache |-> c]
      [] io = "write_fails" ->
            [ok |-> FALSE, error |-> "failed writing cache file",
             cache |-> WriteFile(c, key, DamagedFile("truncated"))]
      [] io = "ok" ->
            [ok |-> TRUE, error |-> "", cache |-> WriteFile(c, key, payload)]

\* --------------------------------------------------- CompilerRouter::compile
NoError == [kind |-> "none", msg |-> "", attempts |-> <<>>]

Returned(result) ==
    [ok |-> TRUE, javascript |-> result.javascript,
     provider |-> result.provider, model |-> result.model,
     prompt_version |-> result.prompt_version,
     cache_hit |-> result.cache_hit, error |-> NoError]

Failed(error) ==
    [ok |-> FALSE, javascript |-> <<>>, provider |-> None, model |-> None,
     prompt_version |-> <<>>, cache_hit |-> FALSE, error |-> error]

\* slip: the canonical hint of the kind is hashed, not the language hint
\* that was sent to the provider
lookup_key_kind_hint(req, candidate) ==
    cache_key(req.source_text, req.source_id, as_hint(resolved_kind(req)),
              candidate.provider, UnwrapOr(req.model_override, candidate.model))

\* slip: the scope context of the request is hashed with the source text
lookup_key_with_scope(req, candidate) ==
    cache_key(req.source_text
                \o (IF "scope_context" \in DOMAIN req
                    THEN UnwrapOr(req.scope_context, <<>>) ELSE <<>>),
              req.source_id, effective_hint(req),
              candidate.provider, UnwrapOr(req.model_override, candidate.model))

\* key probed for one candidate of the chain (lines 214-225)
lookup_key(req, candidate) ==
    cache_key(req.source_text, req.source_id, effective_hint(req),
              candidate.provider, UnwrapOr(req.model_override, candidate.model))

\* slip: the key of the preferred candidate, not of the answering one
write_key_first_candidate(req, translated) ==
    cache_key(req.source_text, req.source_id, effective_hint(req),
              IF req.provider_selection = SelAuto THEN Ollama
              ELSE translated.provider,
              translated.model)

\* key of the write-back (lines 253-259)
write_key(req, translated) ==
    cache_key(req.source_text, req.source_id, effective_hint(req),
              translated.provider, translated.model)

\* slip: the loop does not return at the first hit, the last hit wins
RECURSIVE lookup_loop_last_hit(_, _, _, _, _)
lookup_loop_last_hit(req, chain, i, c, log) ==
    LET merged(cached, rest) ==
            IF rest.hit \/ ~IsSome(cached) THEN rest
            ELSE [hit |-> TRUE, cached |-> cached, log |-> rest.log]
        got(candidate, key, cached) ==
            merged(cached,
                   lookup_loop_last_hit(req, chain, i + 1, c,
                       Append(log, Event("get", key, candidate.provider,
                                         UnwrapOr(req.model_override,
                                                  candidate.model),
                                         IsSome(cached), <<>>))))
        probe(candidate, key) == got(candidate, key, get(c, key))
        try(candidate) == probe(candidate, lookup_key(req, candidate))
    IN IF i > Len(chain) THEN [hit |-> FALSE, cached |-> None, log |-> log]
       ELSE try(chain[i])

RECURSIVE lookup_loop(_, _, _, _, _)
lookup_loop(req, chain, i, c, log) ==
    LET probed(cached, log2) ==
            IF IsSome(cached)
            THEN [hit |-> TRUE, cached |-> cached, log |-> log2]
            ELSE lookup_loop(req, chain, i + 1, c, log2)
        got(candidate, key, cached) ==
            probed(cached,
                   Append(log, Event("get", key, candidate.provider,
                                     UnwrapOr(req.model_override,
                                              candidate.model),
                                     IsSome(cached), <<>>)))
        probe(candidate, key) == got(candidate, key, get(c, key))
        try(candidate) == probe(candidate, lookup_key(req, candidate))
    IN IF i > Len(chain) THEN [hit |-> FALSE, cached |-> None, log |-> log]
       ELSE try(chain[i])

\* slip: the cache is looked up whether or not no_cache is set
lookup_despite_no_cache(req, c, reachable) ==
    lookup_loop(req, candidate_chain(req.provider_selection, reachable),
                1, c, ProbeEvents(req.provider_selection, reachable))

\* The cache lookup over the candidate chain (lines 212-230).
lookup(req, c, reachable) ==
    IF req.no_cache THEN [hit |-> FALSE, cached |-> None, log |-> <<>>]
    ELSE lookup_loop(req, candidate_chain(req.provider_selection, reachable),
                     1, c, ProbeEvents(req.provider_selection, reachable))

\* slip: the outcome of the put is dropped (let _ = self.cache.put(..))
write_back_ignoring_error(req, c, result, translated, log, io) ==
    LET write(key, w) ==
            [out |-> Returned(result), cache |-> w.cache,
             log |-> Append(log, Event("put", key, translated.provider,
                                       translated.model, w.ok,
                                       result.javascript))]
        at(key) == write(key, put(c, key, result, io))
    IN at(write_key(req, translated))

\* The write-back after a successful translation (lines 252-263): put the
\* result under the key of the answering provider and model; a failed put
\* is returned as the error of the whole call.
write_back(req, c, result, translated, log, io) ==
    LET written(log2, w) ==
            [out |-> IF w.ok THEN Returned(result)
                     ELSE Failed([kind |-> "cache", msg |-> w.error,
                                  attempts |-> <<>>]),
             cache |-> w.cache, log |-> log2]
        write(key, w) ==
            written(Append(log, Event("put", key, translated.provider,
                                      translated.model, w.ok,
                                      result.javascript)),
                    w)
        at(key) == write(key, put(c, key, result, io))
    IN at(write_key(req, translated))

\* env: what the outside world answers during this call
\*   reach_lookup     the reachability probe of the lookup chain
\*   reach_translate  the reachability probe of the chain inside translate
\*   clients          Provider -> Result<String> of its LlmClient
\*   put_io           what the file system does with the write-back
compile(req, c, env) ==
    LET built(result, translated, log) ==
            IF req.no_cache
            THEN [out |-> Returned(result), cache |-> c, log |-> log]
            ELSE write_back(req, c, result, translated, log, env.put_io)
        of_translated(translated, log) ==
            IF ~translated.ok
            THEN [out |-> Failed([kind |-> "routing",
                                  msg |-> "LLM routing failed",
                                  attempts |-> translated.attempts]),
                  cache |-> c, log |-> log]
            ELSE built(CompileResult(translated.javascript,
                                     Some(translated.provider),
                                     Some(translated.model),
                                     PROMPT_VERSION, FALSE),
                       translated, log)
        translated_after(lk, translated) ==
            of_translated(translated, lk.log \o translated.log)
        of_lookup(lk) ==
            IF lk.hit
            THEN [out |-> Returned(Unwrap(lk.cached)), cache |-> c,
                  log |-> lk.log]
            ELSE translated_after(lk,
                    translate(req.provider_selection, env.reach_translate,
                              env.clients, req.model_override))
    IN IF ~needs_llm(req)
       THEN [out |-> Returned(CompileResult(req.source_text, None, None,
                                            PROMPT_VERSION, FALSE)),
             cache |-> c, log |-> <<>>]
       ELSE of_lookup(lookup(req, c, env.reach_lookup))

\* ------------------------------------------------------------------ inputs
Request(text, id, kind, lang, force, sel, model, nocache) ==
    [source_text |-> text, source_id |-> id, kind_hint |-> kind,
     language_hint |-> lang, force_llm |-> force, provider_selection |-> sel,
     model_override |-> model, no_cache |-> nocache]

Env(r1, r2, clients, io) ==
    [reach_lookup |-> r1, reach_translate |-> r2, clients |-> clients,
     put_io |-> io]

TEXT_hello == <<"write hello">>
ID_a_ts == <<"a", ".", "t", "s">>
STR_pseudo == <<"p","s","e","u","d","o">>

JS_one == <<"1">>
RAW_fenced_two == <<"BQ","BQ","BQ","j","s","\n","2","\n","BQ","BQ","BQ">>
RAW_blank == <<" ", "\n">>

\* what the LlmClient of a provider can return: an error, clean JavaScript,
\* a fenced answer, white space only
ClientOutcomes(p) ==
    IF p = Ollama
    THEN {Err("stub failure"), Ok(JS_one), Ok(RAW_blank)}
    ELSE {Err("stub failure"), Ok(RAW_fenced_two)}

NotCalled == Err("stub failure")

Only(p, o) == [q \in Provider |-> IF q = p THEN o ELSE NotCalled]

\* the client answers that a translate over this chain can consult, each
\* client answering with one of outs[provider]
ClientsWith(outs, chain, model_override) ==
    IF Len(chain) = 1
    THEN {Only(chain[1].provider, o) : o \in outs[chain[1].provider]}
    ELSE UNION {
           IF call_provider(chain[1].provider, o1, model_override).ok
           THEN {Only(chain[1].provider, o1)}
           ELSE {[q \in Provider |-> IF q = chain[1].provider THEN o1 ELSE o2] :
                    o2 \in outs[chain[2].provider]}
           : o1 \in outs[chain[1].provider]}

ClientsFor(chain, model_override) ==
    ClientsWith([p \in Provider |-> ClientOutcomes(p)], chain, model_override)

ReachFor(selection) == IF selection = SelAuto THEN BOOLEAN ELSE {FALSE}

\* the environments that make a difference to compile(req, c, _)
EnvsWith(outs, req, c) ==
    IF ~needs_llm(req) THEN {Env(FALSE, FALSE, Only(Ollama, NotCalled), "ok")}
    ELSE UNION {
      IF lookup(req, c, r1).hit
      THEN {Env(r1, FALSE, Only(Ollama, NotCalled), "ok")}
      ELSE UNION { UNION {
             {Env(r1, r2, cl, io) :
                io \in IF req.no_cache
                          \/ ~translate(req.provider_selection, r2, cl,
                                        req.model_override).ok
                       THEN {"ok"} ELSE PutIo}
             : cl \in ClientsWith(outs,
                                  candidate_chain(req.provider_selection, r2),
                                  req.model_override)}
           : r2 \in ReachFor(req.provider_selection)}
      : r1 \in IF req.no_cache THEN {FALSE}
               ELSE ReachFor(req.provider_selection)}

EnvsFor(req, c) == EnvsWith([p \in Provider |-> ClientOutcomes(p)], req, c)

\* <<kind_hint, language_hint, force_llm>>: TypeScript inferred from the
\* source id; an explicit kind with the same language hint, forced;
\* JavaScript, not forced
CacheSources ==
    {<<None, None, FALSE>>,
     <<Some(KindUnknown(STR_pseudo)), Some(STR_typescript), TRUE>>,
     <<Some(KindJavaScript), None, FALSE>>}

CacheRequests ==
    {Request(TEXT_hello, ID_a_ts, src[1], src[2], src[3], sel, model, nocache) :
        src \in CacheSources, sel \in ProviderSelection,
        model \in {None, Some(ollama_model)}, nocache \in BOOLEAN}

EmptyCache == [k \in {} |-> DamagedFile("garbage")]

InitCaches ==
    {EmptyCache,
     WriteFile(EmptyCache,
               cache_key(TEXT_hello, ID_a_ts, STR_typescript, Ollama,
                         ollama_model),
               DamagedFile("garbage")),
     WriteFile(EmptyCache,
               cache_key(TEXT_hello, ID_a_ts, STR_typescript, OpenAiCompatible,
                         openai_model),
               DamagedFile("unreadable"))}

\* ------------------------------------------------------------ state machine
NoRequest ==
    Request(<<>>, <<>>, None, None, FALSE, SelAuto, None, FALSE)

NoPrior ==
    [repeat |-> FALSE, javascript |-> <<>>, provider |-> None, model |-> None,
     prompt_version |-> <<>>, chain |-> <<>>]

NoCall ==
    [valid |-> FALSE, req |-> NoRequest, out |-> Failed(NoError),
     log |-> <<>>, chain |-> <<>>, prior |-> NoPrior]

Ops(log, op) == SelectSeq(log, LAMBDA e : e.op = op)

\* the call looked the cache up, missed, translated and wrote the entry
FreshlyWritten(call) ==
    /\ call.valid /\ call.out.ok /\ ~call.out.cache_hit
    /\ \E i \in 1..Len(call.log) : call.log[i].op = "put" /\ call.log[i].ok

\* history: does this call repeat the request of the call before it, and
\* did that call write a fresh translation
PriorOf(call, req) ==
    IF FreshlyWritten(call) /\ call.req = req
    THEN [repeat |-> TRUE, javascript |-> call.out.javascript,
          provider |-> call.out.provider, model |-> call.out.model,
          prompt_version |-> call.out.prompt_version, chain |-> call.chain]
    ELSE NoPrior

\* A part of the program that a specification does not exercise stays as
\* constructed.
Idle == [valid |-> FALSE]

IdleExcept(parts) ==
    /\ IF "compiler" \in parts THEN TRUE
       ELSE cache = EmptyCache /\ last = NoCall /\ calls = 0
    /\ IF "router" \in parts THEN TRUE ELSE rt = Idle /\ nz = Idle
    /\ IF "helpers" \in parts THEN TRUE ELSE hist = Idle /\ ctx = Idle
    /\ IF "repl" \in parts THEN TRUE ELSE session = Idle /\ turn = Idle
    /\ IF "run" \in parts THEN TRUE ELSE run = Idle
    /\ IF "race" \in parts THEN TRUE ELSE race = Idle

UnchangedExcept(parts) ==
    /\ IF "compiler" \in parts THEN TRUE ELSE UNCHANGED compiler_vars
    /\ IF "router" \in parts THEN TRUE ELSE UNCHANGED router_vars
    /\ IF "helpers" \in parts THEN TRUE ELSE UNCHANGED helper_vars
    /\ IF "repl" \in parts THEN TRUE ELSE UNCHANGED repl_vars
    /\ IF "run" \in parts THEN TRUE ELSE UNCHANGED run_vars
    /\ IF "race" \in parts THEN TRUE ELSE UNCHANGED race_vars

Init ==
    /\ cache \in InitCaches
    /\ last = NoCall
    /\ calls = 0
    /\ IdleExcept({"compiler"})

CompileCall(req, env) ==
    LET done(r) ==
        /\ cache' = r.cache
        /\ last' = [valid |-> TRUE, req |-> req, out |-> r.out, log |-> r.log,
                    chain |-> IF needs_llm(req) /\ ~req.no_cache
                              THEN candidate_chain(req.provider_selection,
                                                   env.reach_lookup)
                              ELSE <<>>,
                    prior |-> PriorOf(last, req)]
        /\ calls' = calls + 1
    IN done(compile(req, cache, env))

Compile ==
    /\ calls < MaxCalls
    /\ \E req \in CacheRequests : \E env \in EnvsFor(req, cache) :
          CompileCall(req, env)
    /\ UnchangedExcept({"compiler"})

Next == Compile

Spec == Init /\ [][Next]_vars

TypeOK == calls \in 0..MaxCalls /\ last.valid \in BOOLEAN

\* ------------------------------------------- classification specification
\* Source identifiers: every string of at most MaxIdLen characters over
\* IdChars, and some longer file names.
IdChars == {"a", ".", "j", "s"}

RECURSIVE StringsUpTo(_, _)
StringsUpTo(chars, n) ==
    IF n = 0 THEN {<<>>}
    ELSE LET shorter == StringsUpTo(chars, n - 1) IN
         shorter \cup {Append(w, ch) : w \in shorter, ch \in chars}

ID_a_js == <<"a", ".", "j", "s">>

LongIds ==
    {ID_a_js, ID_a_ts,
     <<"A", ".", "J", "S">>, <<"a", ".", "M", "j", "s">>,
     <<"a", ".", "c", "j", "s">>, <<"a", ".", "a", "u", "t", "o">>,
     <<"a", ".", "j", "s", ".", "t", "s">>,
     <<"a", ".", "t", "s", ".", "j", "s">>,
     <<"a", ".", "j", "s", "x">>}

KindHints ==
    {None, Some(KindAuto), Some(KindJavaScript), Some(KindTypeScript),
     Some(KindUnknown(STR_js))}

\* <<language_hint, provider_selection, model_override, no_cache>>
KindVariants ==
    {<<None, SelAuto, None, FALSE>>,
     <<Some(STR_typescript), SelOllama, Some(openai_model), TRUE>>,
     <<Some(STR_javascript), SelOpenAiCompatible, None, FALSE>>,
     <<None, SelOllama, None, TRUE>>}

KindRequests ==
    {Request(TEXT_hello, id, kind, v[1], force, v[2], v[3], v[4]) :
        id \in StringsUpTo(IdChars, MaxIdLen) \cup LongIds,
        kind \in KindHints, force \in BOOLEAN, v \in KindVariants}

\* a cache that already holds the entry a forced compile of a.js wrote
KindInitCaches ==
    {EmptyCache,
     WriteFile(EmptyCache,
               cache_key(TEXT_hello, ID_a_js, STR_javascript, Ollama,
                         ollama_model),
               PayloadFile(JS_one, Some(format_provider(Ollama)),
                           Some(ollama_model), PROMPT_VERSION))}

KindInit ==
    /\ cache \in KindInitCaches
    /\ last = NoCall
    /\ calls = 0
    /\ IdleExcept({"compiler"})

CompileOnce ==
    /\ calls = 0
    /\ \E req \in KindRequests : \E env \in EnvsFor(req, cache) :
          CompileCall(req, env)
    /\ UnchangedExcept({"compiler"})

KindNext == CompileOnce

SpecKind == KindInit /\ [][KindNext]_vars

\* ------------------------------------------------------------------ claims
\* the call went down the translation path: it looked the cache up or
\* called a provider
TookTranslationPath ==
    \E i \in 1..Len(last.log) : last.log[i].op \in {"probe", "get", "call", "put"}

\* C1: pass-through law.  A compile whose resolved kind is JavaScript and
\* whose force_llm is false returns the source text unchanged, with no
\* provider, no model and cache_hit = false, and performs no reachability
\* probe, no cache read, no provider call and no cache write, whatever
\* no_cache, the provider selection, the model override and the language
\* hint are.
C1_PassThrough ==
    (last.valid /\ ~last.req.force_llm
       /\ resolved_kind(last.req) = KindJavaScript)
    => /\ last.out.ok
       /\ last.out.javascript = last.req.source_text
       /\ last.out.provider = None
       /\ last.out.model = None
       /\ ~last.out.cache_hit
       /\ last.log = <<>>

\* an unforced a.js was compiled with caching on while the cache held an
\* entry under the key a forced compile of it looks up
C1_Witness ==
    /\ last.valid /\ ~last.req.force_llm /\ ~last.req.no_cache
    /\ last.req.source_id = ID_a_js
    /\ last.req.kind_hint = None
    /\ last.req.provider_selection = SelAuto
    /\ lookup_key(last.req, Descriptor(Ollama, ollama_model)) \in DOMAIN cache
    /\ last.out.javascript = last.req.source_text
    /\ last.out.provider = None

\* C2: compile takes the translation path iff force_llm is set or the
\* resolved kind is not JavaScript; the resolved kind is the explicit kind
\* hint when one is given and is not Auto, otherwise from_hint of the text
\* after the last '.' of the source id, or Unknown("unknown") when the id
\* has no '.'.
C2_TranslationPathIff ==
    last.valid =>
      LET id == last.req.source_id
          hint == last.req.kind_hint
          dots == {i \in 1..Len(id) : id[i] = "."}
          inferred ==
            IF dots = {} THEN KindUnknown(STR_unknown)
            ELSE LET d == CHOOSE i \in dots : \A j \in dots : j <= i IN
                 from_hint(SubSeq(id, d + 1, Len(id)))
          kind == IF IsSome(hint) /\ Unwrap(hint) # KindAuto
                  THEN Unwrap(hint) ELSE inferred
      IN TookTranslationPath <=>
            (last.req.force_llm \/ kind # KindJavaScript)

\* an unforced request with kind hint Auto and two dots in its id went to
\* translation because of the extension after the last dot
C2_Witness ==
    /\ last.valid /\ ~last.req.force_llm
    /\ last.req.kind_hint = Some(KindAuto)
    /\ last.req.source_id = <<"a", ".", "j", "s", ".", "t", "s">>
    /\ TookTranslationPath

\* ------------------------------------------------------------ cache claims
Indices(log, op) == {i \in 1..Len(log) : log[i].op = op}

\* the six values a key is computed from, for one get or put event
SixValues(call, e) ==
    <<call.req.source_text, call.req.source_id, effective_hint(call.req),
      e.provider, e.model, PROMPT_VERSION>>

KeyComputations(call) ==
    {<<SixValues(call, call.log[i]), call.log[i].key>> :
        i \in Indices(call.log, "get") \cup Indices(call.log, "put")}

KeyOf(req, provider, model) ==
    cache_key(req.source_text, req.source_id, effective_hint(req),
              provider, model)

Absent(c, key) == key \notin DOMAIN c \/ c[key].kind \in DamageKinds

\* C3: cache-key determinism.  Any two key computations, in the same call
\* or in consecutive calls, that agree on source text, source id, effective
\* language hint, provider, model and prompt version yield the same key,
\* whatever the flags of the requests are and whatever ran before.
C3_KeyDeterminism ==
    [][\A a, b \in KeyComputations(last) \cup KeyComputations(last') :
          a[1] = b[1] => a[2] = b[2]]_vars

\* the second call, forced and with an explicit language hint, was answered
\* from the entry that the first call wrote for a different request
C3_Witness ==
    /\ calls = 2 /\ last.valid /\ last.out.ok /\ last.out.cache_hit
    /\ last.req.force_llm
    /\ last.req.language_hint = Some(STR_typescript)
    /\ ~last.prior.repeat
    /\ Indices(last.log, "get") # {}

\* C5 as stated: with caching enabled, after a compile that missed the
\* cache, got JavaScript J from a provider and wrote the entry, a second
\* identical request returns cache_hit = true with J and the provider,
\* model and prompt version of the first answer, and calls no provider.
C5_SecondRequestHits ==
    (last.valid /\ last.prior.repeat)
    => /\ last.out.ok /\ last.out.cache_hit
       /\ last.out.javascript = last.prior.javascript
       /\ last.out.provider = last.prior.provider
       /\ last.out.model = last.prior.model
       /\ last.out.prompt_version = last.prior.prompt_version
       /\ Indices(last.log, "call") = {}

\* C5 amended: the same, provided the candidate chain of the second request
\* is the chain that the lookup of the first request went through and the
\* answering provider is in it.
C5_SecondRequestHitsSameChain ==
    (/\ last.valid /\ last.prior.repeat
     /\ last.chain = last.prior.chain
     /\ \E i \in 1..Len(last.chain) :
           last.chain[i].provider = Unwrap(last.prior.provider))
    => /\ last.out.ok /\ last.out.cache_hit
       /\ last.out.javascript = last.prior.javascript
       /\ last.out.provider = last.prior.provider
       /\ last.out.model = last.prior.model
       /\ last.out.prompt_version = last.prior.prompt_version
       /\ Indices(last.log, "call") = {}

\* under Auto with the local provider reachable both times, the first call
\* fell back to the cloud provider and the repeated request hit its entry
\* after missing the key of the local provider
C5_Witness ==
    /\ last.valid /\ last.prior.repeat
    /\ last.chain = last.prior.chain /\ Len(last.chain) = 2
    /\ last.prior.provider = Some(OpenAiCompatible)
    /\ last.out.cache_hit
    /\ last.out.javascript = last.prior.javascript
    /\ last.out.javascript = <<"2">>

\* C6: every cache write of a compile follows directly on a provider call
\* of the same compile that succeeded (normalization included) and stores
\* exactly the JavaScript, provider and model of that call; the files of
\* all other keys stay as they were; a pass-through, a compile answered
\* from the cache and a compile whose candidates all fail write nothing.
C6_WriteFollowsSuccess ==
    [][calls' = calls + 1 =>
        LET log == last'.log
            puts == Indices(log, "put") IN
        /\ Cardinality(puts) <= 1
        /\ \A i \in puts :
              /\ i > 1 /\ log[i-1].op = "call" /\ log[i-1].ok
              /\ log[i].js = log[i-1].js
              /\ log[i].provider = log[i-1].provider
              /\ log[i].model = log[i-1].model
              /\ log[i].ok =>
                    /\ log[i].key \in DOMAIN cache'
                    /\ cache'[log[i].key] =
                          PayloadFile(log[i-1].js,
                                      Some(format_provider(log[i-1].provider)),
                                      Some(log[i-1].model), PROMPT_VERSION)
        /\ \A k \in DOMAIN cache \cup DOMAIN cache' :
              (\A i \in puts : log[i].key # k)
                 => k \in DOMAIN cache /\ k \in DOMAIN cache'
                    /\ cache'[k] = cache[k]
        /\ (\/ log = <<>>
            \/ last'.out.cache_hit
            \/ \A i \in Indices(log, "call") : ~log[i].ok) => puts = {}]_vars

\* a fenced answer of the cloud provider was written, normalized, after the
\* local provider had failed
C6_Witness ==
    /\ last.valid /\ last.out.ok
    /\ \E i \in Indices(last.log, "put") :
          /\ last.log[i].ok /\ i > 2
          /\ last.log[i-2].op = "call" /\ ~last.log[i-2].ok
          /\ last.log[i-1].provider = OpenAiCompatible
          /\ cache[last.log[i].key].javascript = <<"2">>
          /\ cache[last.log[i].key].provider = Some(<<"openai-compatible">>)

\* C7: when an earlier candidate fails and a later one answers, the entry
\* is stored under the key of the answering provider and the model it used,
\* and the file under the key of every failed candidate is left as it was.
C7_KeyOfAnsweringCandidate ==
    [][calls' = calls + 1 =>
        LET log == last'.log
            failed == {f \in Indices(log, "call") : ~log[f].ok} IN
        \A i \in Indices(log, "put") :
           (log[i].ok /\ failed # {}) =>
              /\ log[i].key = KeyOf(last'.req, log[i-1].provider, log[i-1].model)
              /\ cache'[log[i].key].kind = "payload"
              /\ \A f \in failed :
                    LET kf == KeyOf(last'.req, log[f].provider, log[f].model) IN
                    /\ kf # log[i].key
                    /\ kf \in DOMAIN cache' =>
                          kf \in DOMAIN cache /\ cache'[kf] = cache[kf]]_vars

\* the local provider failed, the cloud provider answered, and the only new
\* file is the one under the key of the cloud provider
C7_Witness ==
    /\ last.valid /\ last.out.ok /\ last.out.provider = Some(OpenAiCompatible)
    /\ \E f \in Indices(last.log, "call") :
          /\ ~last.log[f].ok /\ last.log[f].provider = Ollama
          /\ KeyOf(last.req, Ollama, last.log[f].model) \notin DOMAIN cache
    /\ \E i \in Indices(last.log, "put") :
          /\ last.log[i].ok
          /\ last.log[i].key =
                KeyOf(last.req, OpenAiCompatible, Unwrap(last.out.model))

\* C8: with caching enabled on a request that needs translation, the cache
\* is probed once per candidate in chain order up to the first hit, which is
\* returned without any provider call; a later candidate's entry is
\* returned only if the keys of all earlier candidates miss, and the router
\* is called only if the key of every candidate misses.
C8_LookupInChainOrder ==
    (last.valid /\ needs_llm(last.req) /\ ~last.req.no_cache) =>
      LET gets == Ops(last.log, "get")
          n == Len(gets)
          chain == last.chain
          called == Indices(last.log, "call") # {} IN
      /\ n >= 1 /\ n <= Len(chain)
      /\ \A i \in 1..n :
            gets[i].key = KeyOf(last.req, chain[i].provider,
                                UnwrapOr(last.req.model_override,
                                         chain[i].model))
      /\ \A i \in 1..(n-1) : ~gets[i].ok
      /\ gets[n].ok =>
            /\ ~called /\ Indices(last.log, "put") = {}
            /\ last.out = Returned(Unwrap(get(cache, gets[n].key)))
            /\ \A i \in 1..(n-1) : get(cache, gets[i].key) = None
      /\ ~gets[n].ok => n = Len(chain) /\ called
      /\ called => n = Len(chain) /\ \A i \in 1..n : ~gets[i].ok

\* the key of the local provider missed and the entry of the cloud provider
\* was returned, with no provider call
C8_Witness ==
    /\ last.valid /\ ~last.req.no_cache /\ Len(last.chain) = 2
    /\ Len(Ops(last.log, "get")) = 2
    /\ ~Ops(last.log, "get")[1].ok /\ Ops(last.log, "get")[2].ok
    /\ last.out.cache_hit /\ last.out.provider = Some(OpenAiCompatible)
    /\ Indices(last.log, "call") = {}

\* C9: a get on a key whose file is missing, unreadable or not parseable
\* (a truncated or corrupted file included) returns nothing; when that is so
\* for every probed key the router is called as on a miss; and a compile
\* never fails because of a cache read: it fails only with the routing
\* error of the translator or with the error of the write-back.
C9_DamagedFileIsMiss ==
    [][calls' = calls + 1 =>
        LET log == last'.log
            gets == Indices(log, "get") IN
        /\ \A i \in gets : Absent(cache, log[i].key) => ~log[i].ok
        /\ (gets # {} /\ \A i \in gets : Absent(cache, log[i].key))
              => /\ Indices(log, "call") # {}
                 /\ ~last'.out.cache_hit
        /\ ~last'.out.ok =>
              \/ /\ last'.out.error.kind = "routing"
                 /\ Indices(log, "call") # {}
                 /\ \A i \in Indices(log, "call") : ~log[i].ok
              \/ /\ last'.out.error.kind = "cache"
                 /\ \E i \in Indices(log, "put") : ~log[i].ok]_vars

\* the lookup ran into an unreadable file, counted it as a miss, and the
\* compile went on to a provider and succeeded
C9_Witness ==
    /\ last.valid /\ last.out.ok /\ ~last.out.cache_hit
    /\ \E i \in Indices(last.log, "get") :
          /\ ~last.log[i].ok
          /\ last.log[i].key \in DOMAIN cache
          /\ cache[last.log[i].key].kind = "unreadable"
    /\ \E i \in Indices(last.log, "call") : last.log[i].ok

\* C10: if the write-back fails after a successful translation, compile
\* returns the write error and not the translated result.
C10_WriteErrorReturned ==
    last.valid =>
      \A i \in Indices(last.log, "put") :
         ~last.log[i].ok =>
            /\ ~last.out.ok
            /\ last.out.error.kind = "cache"
            /\ last.out.error.msg \in {"failed creating cache dir",
                                       "failed writing cache file"}
            /\ last.out.javascript = <<>>

\* a provider answered, the write of the file failed half way and left a
\* truncated file, and the call returned the write error
C10_Witness ==
    /\ last.valid /\ ~last.out.ok
    /\ last.out.error.msg = "failed writing cache file"
    /\ \E i \in Indices(last.log, "put") :
          /\ ~last.log[i].ok
          /\ last.log[i-1].op = "call" /\ last.log[i-1].ok
          /\ cache[last.log[i].key].kind = "truncated"

\* ---------------------------------------------- separator-bearing inputs
\* The hasher of cache_key is fed the fields one after the other with fixed
\* separators and no length framing; language hint and model override are
\* caller-chosen strings and may themselves contain the separator text.
MODEL_c == <<"c">>
MODEL_b_then_openai_c ==
    <<"b">> \o SEP_provider \o format_provider(OpenAiCompatible)
            \o SEP_model \o MODEL_c
HINT_typescript_then_ollama_b ==
    STR_typescript \o SEP_provider \o format_provider(Ollama)
                   \o SEP_model \o <<"b">>

CollideRequests ==
    {Request(TEXT_hello, ID_a_ts, None, Some(lang), FALSE, sel, model, nocache) :
        lang \in {STR_typescript, HINT_typescript_then_ollama_b},
        sel \in ProviderSelection,
        model \in {None, Some(MODEL_c), Some(MODEL_b_then_openai_c)},
        nocache \in BOOLEAN}

CollideInit ==
    /\ cache = EmptyCache
    /\ last = NoCall
    /\ calls = 0
    /\ IdleExcept({"compiler"})

CompileCrafted ==
    /\ calls < MaxCalls
    /\ \E req \in CollideRequests : \E env \in EnvsFor(req, cache) :
          CompileCall(req, env)
    /\ UnchangedExcept({"compiler"})

CollideNext == CompileCrafted

SpecCollide == CollideInit /\ [][CollideNext]_vars

ModelNames == {ollama_model, openai_model, MODEL_c, MODEL_b_then_openai_c}

\* C4: cache isolation.  An entry written after provider A with model M
\* answered is returned only by a compile whose candidate chain contains
\* provider A with model M (the override, when one is given, being the model
\* of every candidate); and for the text, id and hint of a request the keys
\* of two provider/model pairs that differ only in the provider or only in
\* the model are distinct.
C4_CacheIsolation ==
    /\ (last.valid /\ last.out.ok /\ last.out.cache_hit) =>
          \E i \in 1..Len(last.chain) :
             /\ last.chain[i].provider = Unwrap(last.out.provider)
             /\ UnwrapOr(last.req.model_override, last.chain[i].model)
                   = Unwrap(last.out.model)
    /\ last.valid =>
          \A p1, p2 \in Provider : \A m1, m2 \in ModelNames :
             ((p1 # p2 /\ m1 = m2) \/ (p1 = p2 /\ m1 # m2))
                => KeyOf(last.req, p1, m1) # KeyOf(last.req, p2, m2)

\* ---------------------------------------------------- router specification
RAW_fenced_blank == <<"BQ","BQ","BQ","\n"," ","\n","BQ","BQ","BQ">>

\* what the LlmClient of a provider can answer when the router is called
\* directly
RouterOutcomes(p) ==
    IF p = Ollama
    THEN {Err("failed calling Ollama"), Ok(JS_one), Ok(RAW_blank),
          Ok(RAW_fenced_blank)}
    ELSE {Err("OPENAI_API_KEY is required for OpenAI-compatible translation"),
          Err("stub failure"), Ok(RAW_fenced_two)}

NoTranslation ==
    [ok |-> FALSE, javascript |-> <<>>, provider |-> Ollama, model |-> <<>>,
     attempts |-> <<>>, log |-> <<>>]

\* one call of the TranslationService, with what it was given and returned
RouterCall(op, selection, reachable, clients, model_override, out) ==
    [valid |-> TRUE, op |-> op, selection |-> selection,
     reachable |-> reachable, clients |-> clients,
     model_override |-> model_override,
     chain |-> candidate_chain(selection, reachable), out |-> out]

RoutedRequests ==
    {Request(TEXT_hello, ID_a_ts, None, None, FALSE, sel, model, nocache) :
        sel \in ProviderSelection, model \in {None, Some(MODEL_c)},
        nocache \in BOOLEAN}

\* compile reaches translate when the request needs translation and the
\* lookup did not return
ReachesTranslate(req, c, env) ==
    needs_llm(req) /\ (req.no_cache \/ ~lookup(req, c, env.reach_lookup).hit)

RouterInit ==
    /\ cache \in InitCaches
    /\ last = NoCall
    /\ calls = 0
    /\ rt = Idle
    /\ nz = Idle
    /\ IdleExcept({"compiler", "router"})

CandidateChain ==
    /\ calls = 0
    /\ \E selection \in ProviderSelection : \E reachable \in BOOLEAN :
          rt' = RouterCall("candidate_chain", selection, reachable,
                           Only(Ollama, NotCalled), None,
                           [NoTranslation EXCEPT
                              !.log = ProbeEvents(selection, reachable)])
    /\ UNCHANGED nz
    /\ UnchangedExcept({"router"})

Translate ==
    /\ calls = 0
    /\ \E selection \in ProviderSelection : \E reachable \in BOOLEAN :
       \E o1 \in RouterOutcomes(Ollama) :
       \E o2 \in RouterOutcomes(OpenAiCompatible) :
       \E model_override \in {None, Some(MODEL_c)} :
          LET clients == [p \in Provider |-> IF p = Ollama THEN o1 ELSE o2] IN
          rt' = RouterCall("translate", selection, reachable, clients,
                           model_override,
                           translate(selection, reachable, clients,
                                     model_override))
    /\ UNCHANGED nz
    /\ UnchangedExcept({"router"})

RoutedCompile ==
    /\ calls = 0
    /\ \E req \in RoutedRequests : \E env \in EnvsFor(req, cache) :
          /\ CompileCall(req, env)
          /\ rt' = IF ReachesTranslate(req, cache, env)
                   THEN RouterCall("translate", req.provider_selection,
                                   env.reach_translate, env.clients,
                                   req.model_override,
                                   translate(req.provider_selection,
                                             env.reach_translate, env.clients,
                                             req.model_override))
                   ELSE Idle
    /\ UNCHANGED nz
    /\ UnchangedExcept({"compiler", "router"})

RouterNext == CandidateChain \/ Translate \/ RoutedCompile

SpecRouter == RouterInit /\ [][RouterNext]_vars

\* C11: candidate_chain returns, for an explicit selection, exactly one
\* entry with that provider and its configured model, whatever the probe
\* would answer (the probe is not consulted); for Auto with the local
\* provider reachable exactly [local, cloud]; for Auto with the local
\* provider unreachable exactly [cloud].
C11_CandidateChain ==
    rt.valid =>
      /\ rt.selection = SelOllama =>
            rt.chain = <<[provider |-> Ollama, model |-> ollama_model]>>
      /\ rt.selection = SelOpenAiCompatible =>
            rt.chain = <<[provider |-> OpenAiCompatible,
                          model |-> openai_model]>>
      /\ (rt.selection = SelAuto /\ rt.reachable) =>
            rt.chain = <<[provider |-> Ollama, model |-> ollama_model],
                         [provider |-> OpenAiCompatible,
                          model |-> openai_model]>>
      /\ (rt.selection = SelAuto /\ ~rt.reachable) =>
            rt.chain = <<[provider |-> OpenAiCompatible,
                          model |-> openai_model]>>
      /\ rt.selection # SelAuto => Ops(rt.out.log, "probe") = <<>>

\* the chain was asked for with the local provider selected while the probe
\* would have answered that it is unreachable
C11_Witness ==
    /\ rt.valid /\ rt.op = "candidate_chain"
    /\ rt.selection = SelOllama /\ ~rt.reachable
    /\ Len(rt.chain) = 1 /\ rt.chain[1].provider = Ollama

\* why a candidate counts as failed: the error of its client, or the error
\* of the normalization of what the client returned
FailureText(client) ==
    IF ~client.ok THEN client.error
    ELSE IF \A i \in 1..Len(client.val) : client.val[i] \in WhiteSpace
         THEN "LLM returned empty output"
         ELSE "LLM returned empty fenced output"

ConfiguredModel(p) == IF p = Ollama THEN ollama_model ELSE openai_model

\* C12: translate calls the candidates of the chain in chain order, each at
\* most once, stops at the first success, which it returns with the provider
\* tag of that candidate and the model the call used, and calls no candidate
\* after the first successful one.
C12_FirstSuccessReturns ==
    (rt.valid /\ rt.op = "translate") =>
      LET cs == Ops(rt.out.log, "call")
          n == Len(cs) IN
      /\ n >= 1 /\ n <= Len(rt.chain)
      /\ \A i \in 1..n : cs[i].provider = rt.chain[i].provider
      /\ \A i, j \in 1..n : i # j => cs[i].provider # cs[j].provider
      /\ \A i \in 1..(n-1) : ~cs[i].ok
      /\ cs[n].ok =>
            /\ rt.out.ok
            /\ rt.out.provider = rt.chain[n].provider
            /\ rt.out.model = UnwrapOr(rt.model_override,
                                       ConfiguredModel(rt.chain[n].provider))
            /\ rt.out.model = cs[n].model
            /\ rt.out.javascript = cs[n].js
      /\ ~cs[n].ok => n = Len(rt.chain) /\ ~rt.out.ok

\* under Auto with a model override the local provider answered and the
\* cloud provider, second in the chain, was not called
C12_Witness ==
    /\ rt.valid /\ rt.op = "translate" /\ rt.out.ok
    /\ Len(rt.chain) = 2 /\ Len(Ops(rt.out.log, "call")) = 1
    /\ rt.model_override = Some(MODEL_c) /\ rt.out.model = MODEL_c
    /\ rt.out.provider = Ollama
    /\ rt.clients[OpenAiCompatible].ok

\* C13: if every candidate fails, translate returns one routing error with
\* exactly one attempt per candidate, in chain order, each with the provider
\* of the candidate and its error text; compile returns that error as it is
\* and leaves the cache unchanged.
C13_AggregateRoutingError ==
    [][(rt'.valid /\ rt'.op = "translate" /\ ~rt'.out.ok) =>
          /\ Len(rt'.out.attempts) = Len(rt'.chain)
          /\ \A i \in 1..Len(rt'.chain) :
                rt'.out.attempts[i] =
                   [provider |-> rt'.chain[i].provider, stage |-> "translate",
                    error |-> FailureText(rt'.clients[rt'.chain[i].provider])]
          /\ calls' = calls + 1 =>
                /\ ~last'.out.ok
                /\ last'.out.error = [kind |-> "routing",
                                      msg |-> "LLM routing failed",
                                      attempts |-> rt'.out.attempts]
                /\ cache' = cache]_vars

\* a compile under Auto in which the local provider returned white space
\* and the cloud provider failed: two attempts, cache files still there
C13_Witness ==
    /\ calls = 1 /\ rt.valid /\ ~rt.out.ok /\ ~last.out.ok
    /\ Len(rt.out.attempts) = 2
    /\ rt.out.attempts[1].error = "LLM returned empty output"
    /\ rt.out.attempts[2].error = "stub failure"
    /\ last.out.error.attempts = rt.out.attempts
    /\ cache # EmptyCache

\* ------------------------------------------- normalization specification
\* a raw answer is put together from a few pieces: a fence, a single
\* backquote, a line break, a blank, a character of code
RawPieces == {FENCE, <<"BQ">>, <<"\n">>, <<" ">>, <<"x">>}

RECURSIVE PiecesUpTo(_, _)
PiecesUpTo(pieces, n) ==
    IF n = 0 THEN {<<>>}
    ELSE LET shorter == PiecesUpTo(pieces, n - 1) IN
         shorter \cup {w \o piece : w \in shorter, piece \in pieces}

RawTexts ==
    PiecesUpTo(RawPieces, MaxRawPieces)
       \cup {JS_one, RAW_fenced_two, RAW_blank, RAW_fenced_blank}

NormalizeInit ==
    /\ nz \in {[valid |-> FALSE, raw |-> raw, out |-> Err("")] :
                  raw \in RawTexts}
    /\ rt = Idle
    /\ IdleExcept({"router"})

Normalize ==
    /\ ~nz.valid
    /\ nz' = [valid |-> TRUE, raw |-> nz.raw,
              out |-> normalize_js_output(nz.raw)]
    /\ UNCHANGED rt
    /\ UnchangedExcept({"router"})

NormalizeNext == Normalize

SpecNormalize == NormalizeInit /\ [][NormalizeNext]_vars

\* positions of s where a fence starts
FenceStarts(s) ==
    {i \in 1..(Len(s) - 2) : s[i] = "BQ" /\ s[i+1] = "BQ" /\ s[i+2] = "BQ"}

Least(S) == CHOOSE i \in S : \A j \in S : i <= j

Greatest(S) == CHOOSE i \in S : \A j \in S : i >= j

\* s without its leading and trailing white space: from the first to the
\* last character that is not white space
Trimmed(s) ==
    LET solid == {k \in 1..Len(s) : s[k] \notin WhiteSpace} IN
    IF solid = {} THEN <<>> ELSE SubSeq(s, Least(solid), Greatest(solid))

\* The first fenced block of t: the first fence, the end of its line, and
\* the next fence after that line.  <<first character of the interior, last
\* character of the interior>>, or <<0, 0>> when t has no fenced block.
FirstBlock(t) ==
    LET fences == FenceStarts(t) IN
    IF fences = {} THEN <<0, 0>>
    ELSE LET open == Least(fences)
             ends == {i \in (open + 3)..Len(t) : t[i] = "\n"} IN
         IF ends = {} THEN <<0, 0>>
         ELSE LET nl == Least(ends)
                  closes == {i \in fences : i > nl} IN
              IF closes = {} THEN <<0, 0>>
              ELSE <<nl + 1, Least(closes) - 1>>

\* C14: output normalization.  (a) An empty or white-space-only response
\* fails.  (b) A response with a fenced code block yields the trimmed
\* interior of its first fenced block and nothing else, and fails if that
\* interior is empty.  (c) A response without a fenced block yields the
\* whole text trimmed, so clean JavaScript comes back unchanged.
C14_Normalization ==
    nz.valid =>
      LET t == Trimmed(nz.raw)
          block == FirstBlock(t)
          interior == Trimmed(SubSeq(t, block[1], block[2])) IN
      /\ t = <<>> => ~nz.out.ok
      /\ (t # <<>> /\ block # <<0, 0>>) =>
            /\ interior = <<>> => ~nz.out.ok
            /\ interior # <<>> => nz.out.ok /\ nz.out.val = interior
      /\ (t # <<>> /\ block = <<0, 0>>) =>
            /\ nz.out.ok /\ nz.out.val = t
            /\ (FenceStarts(nz.raw) = {} /\ t = nz.raw) => nz.out.val = nz.raw

\* a fenced answer with a language tag on the fence line and white space
\* around the code: only the code comes back
C14_Witness ==
    /\ nz.valid
    /\ nz.raw = <<"BQ","BQ","BQ","j","s","\n","2","\n","BQ","BQ","BQ">>
    /\ nz.out.ok /\ nz.out.val = <<"2">>

\* ------------------------------------------------- bounded history (REPL)
\* slip: the newest entries are dropped, not the oldest
RECURSIVE pop_while_over_newest(_, _)
pop_while_over_newest(history, cap) ==
    IF Len(history) > cap
    THEN pop_while_over_newest(SubSeq(history, 1, Len(history) - 1), cap)
    ELSE history

\* while history.len() > cap { history.pop_front(); }
RECURSIVE pop_while_over(_, _)
pop_while_over(history, cap) ==
    IF Len(history) > cap THEN pop_while_over(Tail(history), cap)
    ELSE history

push_bounded(history, item, cap) == pop_while_over(Append(history, item), cap)

HistoryItems == {"entry-a", "entry-b"}

\* enough pushes to go five past the largest cap
MaxPushes == MaxCap + 5

HistoryInit ==
    /\ hist \in {[valid |-> TRUE, cap |-> cap, items |-> <<>>,
                  pushed |-> <<>>] : cap \in 0..MaxCap}
    /\ ctx = Idle
    /\ IdleExcept({"helpers"})

Push ==
    /\ Len(hist.pushed) < MaxPushes
    /\ \E item \in HistoryItems :
          hist' = [hist EXCEPT
                     !.items = push_bounded(hist.items, item, hist.cap),
                     !.pushed = Append(hist.pushed, item)]
    /\ UNCHANGED ctx
    /\ UnchangedExcept({"helpers"})

HistoryNext == Push

SpecHistory == HistoryInit /\ [][HistoryNext]_vars

\* C15: bounded history.  After n pushes into an initially empty history
\* with cap N the history has length min(n, N) and holds exactly the last
\* min(n, N) pushed items in push order; after N+5 pushes it has length N
\* and its front is the 6th pushed item.
C15_BoundedHistory ==
    hist.valid =>
      LET n == Len(hist.pushed)
          kept == IF n < hist.cap THEN n ELSE hist.cap IN
      /\ Len(hist.items) = kept
      /\ \A i \in 1..kept : hist.items[i] = hist.pushed[n - kept + i]
      /\ (n = hist.cap + 5) =>
            /\ Len(hist.items) = hist.cap
            /\ hist.cap >= 1 => hist.items[1] = hist.pushed[6]

\* cap 2 after 7 pushes: the front is the 6th pushed item, which differs
\* from the 5th and from the 7th
C15_Witness ==
    /\ hist.valid /\ hist.cap = 2 /\ Len(hist.pushed) = 7
    /\ hist.pushed[5] # hist.pushed[6] /\ hist.pushed[6] # hist.pushed[7]
    /\ hist.items = <<hist.pushed[6], hist.pushed[7]>>

\* ----------------------------------------------- context assembly (REPL)
\* Iterator::join / [String]::join: the texts with sep between them
RECURSIVE Join(_, _)
Join(texts, sep) ==
    IF texts = <<>> THEN <<>>
    ELSE IF Len(texts) = 1 THEN texts[1]
    ELSE texts[1] \o sep \o Join(Tail(texts), sep)

\* byte order of the characters that binding names are made of
CharRank(c) == CASE c = "a" -> 1 [] c = "b" -> 2 [] c = "c" -> 3

\* str ordering: lexicographic, a proper prefix first
RECURSIVE StrLess(_, _)
StrLess(x, y) ==
    IF y = <<>> THEN FALSE
    ELSE IF x = <<>> THEN TRUE
    ELSE IF Head(x) = Head(y) THEN StrLess(Tail(x), Tail(y))
    ELSE CharRank(Head(x)) < CharRank(Head(y))

\* bindings.iter() collected (in whatever order the HashSet yields) and
\* sorted with sort_unstable: the names in ascending order
RECURSIVE sort_unstable(_)
sort_unstable(names) ==
    IF names = {} THEN <<>>
    ELSE LET least == CHOOSE x \in names :
                         \A y \in names : x = y \/ StrLess(x, y) IN
         <<least>> \o sort_unstable(names \ {least})

TXT_bindings_prefix == "Bindings currently defined in this REPL session: "
TXT_bindings_suffix == ". Avoid redeclaring them with const/let/class."
TXT_statements_header == "Previously run REPL statements (oldest to newest):\n"
TXT_js_header == "Previously generated JavaScript snippets (oldest to newest):\n"

scope_context_text(bindings) ==
    IF bindings = {} THEN None
    ELSE Some(<<TXT_bindings_prefix>>
              \o Join(sort_unstable(bindings), <<", ">>)
              \o <<TXT_bindings_suffix>>)

\* format!("{}", idx + 1)
DecimalText(k) == <<"1", "2", "3", "4", "5", "6", "7", "8", "9", "10">>[k]

joined_recent_entries(history) ==
    IF history = <<>> THEN None
    ELSE Some(Join([idx \in 1..Len(history) |->
                       <<DecimalText(idx), ". ">> \o history[idx]],
                   <<"\n">>))

\* slip: the generated JavaScript is put before the statements
build_repl_scope_context_js_first(bindings, statement_history, js_history, web_server_context) ==
    LET b == scope_context_text(bindings)
        st == joined_recent_entries(statement_history)
        js == joined_recent_entries(js_history)
        sections ==
            (IF IsSome(b) THEN <<Unwrap(b)>> ELSE <<>>)
            \o (IF IsSome(js) THEN <<<<TXT_js_header>> \o Unwrap(js)>>
                ELSE <<>>)
            \o (IF IsSome(st)
                THEN <<<<TXT_statements_header>> \o Unwrap(st)>> ELSE <<>>)
            \o (IF IsSome(web_server_context)
                THEN <<Unwrap(web_server_context)>> ELSE <<>>)
    IN IF sections = <<>> THEN None ELSE Some(Join(sections, <<"\n\n">>))

build_repl_scope_context(bindings, statement_history, js_history, web_server_context) ==
    LET b == scope_context_text(bindings)
        st == joined_recent_entries(statement_history)
        js == joined_recent_entries(js_history)
        sections ==
            (IF IsSome(b) THEN <<Unwrap(b)>> ELSE <<>>)
            \o (IF IsSome(st)
                THEN <<<<TXT_statements_header>> \o Unwrap(st)>> ELSE <<>>)
            \o (IF IsSome(js) THEN <<<<TXT_js_header>> \o Unwrap(js)>>
                ELSE <<>>)
            \o (IF IsSome(web_server_context)
                THEN <<Unwrap(web_server_context)>> ELSE <<>>)
    IN IF sections = <<>> THEN None ELSE Some(Join(sections, <<"\n\n">>))

BindingNames == {<<"a">>, <<"a", "b">>, <<"b">>, <<"c", "a">>}
StatementTexts == {<<"store 2 in a">>, <<"print a">>}
JsTexts == {<<"const a = 2;">>, <<"console.log(a);">>}
TXT_web_stopped == <<"Web daemon is not running.">>

RECURSIVE SeqsUpTo(_, _)
SeqsUpTo(items, n) ==
    IF n = 0 THEN {<<>>}
    ELSE LET shorter == SeqsUpTo(items, n - 1) IN
         shorter \cup {Append(w, item) : w \in shorter, item \in items}

ContextInit ==
    /\ hist = Idle
    /\ ctx \in {[valid |-> FALSE, bindings |-> bindings,
                 statement_history |-> statements, js_history |-> js,
                 web_server_context |-> status, out |-> None] :
                  bindings \in SUBSET BindingNames,
                  statements \in SeqsUpTo(StatementTexts, MaxEntries),
                  js \in SeqsUpTo(JsTexts, MaxEntries),
                  status \in {None, Some(TXT_web_stopped)}}
    /\ IdleExcept({"helpers"})

BuildContext ==
    /\ ~ctx.valid
    /\ ctx' = [ctx EXCEPT
                 !.valid = TRUE,
                 !.out = build_repl_scope_context(ctx.bindings,
                                                  ctx.statement_history,
                                                  ctx.js_history,
                                                  ctx.web_server_context)]
    /\ UNCHANGED hist
    /\ UnchangedExcept({"helpers"})

ContextNext == BuildContext

SpecContext == ContextInit /\ [][ContextNext]_vars

\* the text cut at every occurrence of the separator symbol
RECURSIVE SplitAt(_, _)
SplitAt(text, sep) ==
    LET cuts == {i \in 1..Len(text) : text[i] = sep} IN
    IF cuts = {} THEN <<text>>
    ELSE <<SubSeq(text, 1, Least(cuts) - 1)>>
         \o SplitAt(SubSeq(text, Least(cuts) + 1, Len(text)), sep)

\* which section a piece of the context is, told by how it begins
SectionKind(section) ==
    CASE section[1] = TXT_bindings_prefix -> 1
      [] section[1] = TXT_statements_header -> 2
      [] section[1] = TXT_js_header -> 3
      [] OTHER -> 4

\* the numbered lines of a history section are the entries, oldest first,
\* numbered from 1
NumberedAs(section, history) ==
    LET lines == SplitAt(Tail(section), "\n") IN
    /\ Len(lines) = Len(history)
    /\ \A k \in 1..Len(history) :
          lines[k] = <<DecimalText(k), ". ">> \o history[k]

\* the bindings sentence lists exactly the bindings, in ascending order
ListsSorted(section, bindings) ==
    LET names == SplitAt(SubSeq(section, 2, Len(section) - 1), ", ") IN
    /\ section[Len(section)] = TXT_bindings_suffix
    /\ {names[k] : k \in 1..Len(names)} = bindings
    /\ \A k \in 1..(Len(names) - 1) : StrLess(names[k], names[k + 1])

\* C17: context assembly emits the non-empty sections in the order bindings
\* sentence, numbered statements, numbered generated JavaScript, status
\* sentence; empty sections are omitted; history entries are numbered from
\* 1, oldest first; bindings are listed sorted by name; and there is no
\* result exactly when bindings and both histories are empty and no status
\* is supplied.
C17_ContextAssembly ==
    ctx.valid =>
      LET present == <<ctx.bindings # {}, ctx.statement_history # <<>>,
                       ctx.js_history # <<>>, IsSome(ctx.web_server_context)>>
          wanted == {k \in 1..4 : present[k]} IN
      /\ ctx.out = None <=> wanted = {}
      /\ IsSome(ctx.out) =>
            LET sections == SplitAt(Unwrap(ctx.out), "\n\n")
                kinds == [k \in 1..Len(sections) |-> SectionKind(sections[k])] IN
            /\ {kinds[k] : k \in 1..Len(kinds)} = wanted
            /\ \A k \in 1..(Len(kinds) - 1) : kinds[k] < kinds[k + 1]
            /\ \A k \in 1..Len(sections) :
                  CASE kinds[k] = 1 -> ListsSorted(sections[k], ctx.bindings)
                    [] kinds[k] = 2 ->
                          NumberedAs(sections[k], ctx.statement_history)
                    [] kinds[k] = 3 -> NumberedAs(sections[k], ctx.js_history)
                    [] OTHER ->
                          sections[k] = Unwrap(ctx.web_server_context)

\* three bindings, two statements, no generated JavaScript, a status: the
\* context has three sections, the names come out sorted
C17_Witness ==
    /\ ctx.valid /\ IsSome(ctx.out)
    /\ ctx.bindings = {<<"c", "a">>, <<"a", "b">>, <<"a">>}
    /\ Len(ctx.statement_history) = 2 /\ ctx.js_history = <<>>
    /\ IsSome(ctx.web_server_context)
    /\ Len(SplitAt(Unwrap(ctx.out), "\n\n")) = 3
    /\ SubSeq(Unwrap(ctx.out), 2, 8) = <<"a", ", ", "a", "b", ", ", "c", "a">>

\* ------------------------------------------- repair helpers (klumo-cli)
REPL_HISTORY_LIMIT == 20

MSG_api_key == "OPENAI_API_KEY is required for OpenAI-compatible translation"
MSG_ollama_unreachable == "failed calling Ollama"
MSG_heal_empty ==
    "self-heal generated empty JavaScript after module-syntax cleanup"
MSG_eval_failed == "failed evaluating <repl>: ReferenceError"
MSG_eval_type == "failed evaluating <repl>: TypeError"
MSG_eval_syntax == "failed evaluating <repl>: SyntaxError"
MSG_eval_other == "failed evaluating <repl>: boom"
MSG_unknown_provider == "unknown provider: x"

\* str::contains over the messages that occur: the needles of the repair
\* helpers that a message holds
NeedlesIn(msg) ==
    CASE msg = MSG_api_key -> {"OPENAI_API_KEY"}
      [] msg = MSG_eval_failed -> {"failed evaluating", "ReferenceError"}
      [] msg = MSG_eval_type -> {"failed evaluating", "TypeError"}
      [] msg = MSG_eval_syntax -> {"failed evaluating", "SyntaxError"}
      [] msg = MSG_eval_other -> {"failed evaluating"}
      [] msg = MSG_unknown_provider -> {"unknown provider"}
      [] OTHER -> {}

contains(text, needle) == \E i \in 1..Len(text) : needle \in NeedlesIn(text[i])

\* format!("{err:#}") of a compile error: the routing error prints its
\* attempts with their error texts, a cache error its message
error_text(error) ==
    IF error.kind = "routing"
    THEN <<"LLM routing failed after">>
         \o [i \in 1..Len(error.attempts) |-> error.attempts[i].error]
    ELSE <<error.msg>>

repl_self_heal_limit(raw) ==
    IF raw = None THEN None
    ELSE IF Unwrap(raw) = 0 THEN None ELSE Some(Unwrap(raw))

\* slip: the round numbered max is still taken
can_continue_self_heal_inclusive(attempt, limit) ==
    IF IsSome(limit) THEN attempt <= Unwrap(limit) ELSE TRUE

\* slip: the limit is not looked at
can_continue_self_heal_always(attempt, limit) == TRUE

can_continue_self_heal(attempt, limit) ==
    IF IsSome(limit) THEN attempt < Unwrap(limit) ELSE TRUE

\* slip: the missing API key is not among the needles
is_non_recoverable_self_heal_error_without_key(text) ==
    \/ contains(text, "llm unavailable")
    \/ contains(text, "unknown provider")

is_non_recoverable_self_heal_error(text) ==
    \/ contains(text, "OPENAI_API_KEY")
    \/ contains(text, "llm unavailable")
    \/ contains(text, "unknown provider")

\* str::lines: the pieces between line feeds, no empty piece after a final
\* line feed
RECURSIVE lines(_)
lines(text) ==
    LET nl == Find(text, <<"\n">>) IN
    IF text = <<>> THEN <<>>
    ELSE IF nl = 0 THEN <<text>>
    ELSE <<SubSeq(text, 1, nl - 1)>> \o lines(SubSeq(text, nl + 1, Len(text)))

KW_export_default == "export default "
KW_export == "export "
KW_import == "import "

sanitize_repl_javascript(input) ==
    LET of_line(line, trimmed) ==
            IF trimmed # <<>> /\ Head(trimmed) = KW_export_default
            THEN Tail(trimmed) \o <<"\n">>
            ELSE IF trimmed # <<>> /\ Head(trimmed) = KW_export
            THEN Tail(trimmed) \o <<"\n">>
            ELSE IF trimmed # <<>> /\ Head(trimmed) = KW_import
            THEN <<>>
            ELSE line \o <<"\n">>
        RECURSIVE over(_)
        over(ls) ==
            IF ls = <<>> THEN <<>>
            ELSE of_line(Head(ls), TrimStart(Head(ls))) \o over(Tail(ls))
    IN TrimEnd(over(lines(input)))

STAGE_runtime == "runtime execution after JS generation"
STAGE_translation == "translation/compile before execution"

CAUSE_reference == "Undefined variable or symbol usage."
CAUSE_type == "Invalid operation on value type (often null/undefined access)."
CAUSE_syntax == "Generated JS contains invalid syntax."
CAUSE_engine ==
    "Runtime engine rejected or failed while evaluating the generated script."
CAUSE_provider == "Provider/config issue prevented translation."
CAUSE_general ==
    "General execution/translation failure; inspect exact error text."

\* repl_helpers.rs 131-143: the first needle found names the cause
probable_cause(err_text) ==
    IF contains(err_text, "ReferenceError") THEN CAUSE_reference
    ELSE IF contains(err_text, "TypeError") THEN CAUSE_type
    ELSE IF contains(err_text, "SyntaxError") THEN CAUSE_syntax
    ELSE IF contains(err_text, "failed evaluating") THEN CAUSE_engine
    ELSE IF contains(err_text, "OPENAI_API_KEY")
            \/ contains(err_text, "llm unavailable") THEN CAUSE_provider
    ELSE CAUSE_general

\* the repair prompt: the attempt number, the stage, the first line of the
\* error, the probable cause, the user's input, the failed JavaScript and
\* the full error
build_repl_self_heal_request(user_prompt, generated_js, err_text, attempt) ==
    <<"- Attempt number: ", DecimalText(attempt + 1),
      "- Failure stage: ",
      IF IsSome(generated_js) THEN STAGE_runtime ELSE STAGE_translation,
      "- Error summary: ", IF err_text = <<>> THEN "unknown error"
                           ELSE err_text[1],
      "- Probable cause: ", probable_cause(err_text),
      "USER PROMPT:">> \o user_prompt
    \o <<"FAILED JAVASCRIPT:">>
    \o (IF IsSome(generated_js) THEN Unwrap(generated_js)
        ELSE <<"<none produced before failure>">>)
    \o <<"FULL ERROR OUTPUT:">> \o err_text

\* ------------------------------------------------ repl_command (klumo-cli)
MaxInputs == 2
MaxAttempts == 3
MaxHealLimit == 2

JS_import_only == <<KW_import, "x">>
RAW_export_two == <<KW_export, "2">>
MSG_openai_failed == "OpenAI-compatible request failed"

\* what the clients of the session can answer: the Ollama service is down,
\* answers JavaScript or answers nothing but an import; the OpenAI client
\* has no key for the whole session, or fails, or answers an export
ReplClientOutcomes(has_api_key, p) ==
    IF p = Ollama
    THEN {Err(MSG_ollama_unreachable), Ok(JS_one), Ok(JS_import_only)}
    ELSE IF has_api_key
    THEN {Err(MSG_openai_failed), Ok(RAW_export_two)}
    ELSE {Err(MSG_api_key)}

\* KLUMO_REPL_SELF_HEAL_MAX_ATTEMPTS: unset, or a number
LimitSettings == {None} \cup {Some(k) : k \in 0..MaxHealLimit}

\* whether the key is set makes a difference where the OpenAI client can be
\* called
KeySettings(sel) == IF sel = SelOllama THEN {FALSE} ELSE BOOLEAN

\* the sessions: every provider selection, limit and key setting with the
\* cache switched off (--no-cache), and one session with the cache
ReplConfigs ==
    {[provider_selection |-> SelOllama, self_heal_limit |-> Some(1),
      has_api_key |-> FALSE, no_cache |-> FALSE]} \cup
    UNION {{[provider_selection |-> sel,
             self_heal_limit |-> repl_self_heal_limit(raw),
             has_api_key |-> key, no_cache |-> TRUE] :
               raw \in LimitSettings, key \in KeySettings(sel)} :
           sel \in ProviderSelection}

\* the lines that read_line returns: a statement (no blank line, no dot
\* command) with what was typed around it, the line terminator included
InputLines == {<<"let a be 2", "\n">>, <<" ", "show a", "\n">>}

ID_repl == <<"<repl>">>
ID_repl_self_heal(attempt) ==
    <<"<repl-self-heal-", IF attempt = 0 THEN "0" ELSE DecimalText(attempt),
      ">">>

ReplRequest(cfg, text, id) ==
    Request(text, id, Some(KindUnknown(STR_pseudo)), Some(STR_pseudo), TRUE,
            cfg.provider_selection, None, cfg.no_cache)

\* main.rs 558-573: the request of the session carries the scope context
ScopedRequest(req, scope_context) ==
    [f \in DOMAIN req \cup {"scope_context"} |->
        IF f = "scope_context" THEN scope_context ELSE req[f]]

TXT_web_running == <<"Web daemon is running.">>
web_server_scope_text(active) ==
    IF active THEN TXT_web_running ELSE TXT_web_stopped

\* the scope context of the session as the loops build it for a request
ScopeOf(s) ==
    build_repl_scope_context({<<n>> : n \in s.known_bindings},
                             s.statement_history, s.js_history,
                             Some(web_server_scope_text(s.web_active)))

ReplEnvs(cfg, req, c) ==
    EnvsWith([p \in Provider |-> ReplClientOutcomes(cfg.has_api_key, p)],
             req, c)

\* what is kept of a repair compile: the flags and the source id of its
\* request, whether the answer came from the cache, and how often the cache
\* was read or written
NoRepair ==
    [issued |-> FALSE, force_llm |-> FALSE, no_cache |-> FALSE,
     source_id |-> <<>>, cache_hit |-> FALSE, cache_ops |-> 0,
     javascript |-> None]

RepairOf(req, r) ==
    [issued |-> TRUE, force_llm |-> req.force_llm, no_cache |-> req.no_cache,
     source_id |-> req.source_id, cache_hit |-> r.out.ok /\ r.out.cache_hit,
     cache_ops |-> Len(SelectSeq(r.log, LAMBDA e : e.op \in {"get", "put"})),
     javascript |-> IF r.out.ok THEN Some(r.out.javascript) ELSE None]

\* slip: the cleaned-up output is returned without the look at whether
\* anything is left of it
compile_repl_heal_candidate_unchecked(cfg, c, env, scope_context, heal_prompt, attempt) ==
    LET req == ScopedRequest(ReplRequest(cfg, heal_prompt,
                                         ID_repl_self_heal(attempt)),
                             scope_context)
        of_compiled(r) ==
            IF ~r.out.ok
            THEN [ok |-> FALSE, js |-> <<>>, text |-> error_text(r.out.error),
                  cache |-> r.cache, repair |-> RepairOf(req, r)]
            ELSE [ok |-> TRUE,
                  js |-> sanitize_repl_javascript(r.out.javascript),
                  text |-> <<>>, cache |-> r.cache,
                  repair |-> RepairOf(req, r)]
    IN of_compiled(compile(req, c, env))

compile_repl_heal_candidate(cfg, c, env, scope_context, heal_prompt, attempt) ==
    LET req == ScopedRequest(ReplRequest(cfg, heal_prompt,
                                         ID_repl_self_heal(attempt)),
                             scope_context)
        of_sanitized(r, sanitized_js) ==
            IF Trim(sanitized_js) = <<>>
            THEN [ok |-> FALSE, js |-> <<>>, text |-> <<MSG_heal_empty>>,
                  cache |-> r.cache, repair |-> RepairOf(req, r)]
            ELSE [ok |-> TRUE, js |-> sanitized_js, text |-> <<>>,
                  cache |-> r.cache, repair |-> RepairOf(req, r)]
        of_compiled(r) ==
            IF ~r.out.ok
            THEN [ok |-> FALSE, js |-> <<>>, text |-> error_text(r.out.error),
                  cache |-> r.cache, repair |-> RepairOf(req, r)]
            ELSE of_sanitized(r, sanitize_repl_javascript(r.out.javascript))
    IN of_compiled(compile(req, c, env))

\* the engine: what an evaluation answers, which globals it leaves behind
\* and whether the script queued klumo.web.start()
BaselineGlobals == {"console"}
EvalOutcomes ==
    {[ok |-> TRUE, defines |-> {}, web_start |-> FALSE, error |-> ""],
     [ok |-> TRUE, defines |-> {"a", "__klumo_web_status"},
      web_start |-> TRUE, error |-> ""],
     [ok |-> FALSE, defines |-> {"b"}, web_start |-> FALSE,
      error |-> MSG_eval_failed],
     [ok |-> FALSE, defines |-> {"b"}, web_start |-> FALSE,
      error |-> MSG_eval_type]}

starts_with_klumo(name) == name \in {"__klumo_web_status"}

SessionContext(s) ==
    [known_bindings |-> s.known_bindings,
     statement_history |-> s.statement_history, js_history |-> s.js_history]

\* the latest compile, repair compile or evaluation of the input
ReplEvent(op, ok, text) == [op |-> op, ok |-> ok, text |-> text]

\* what is kept of the compile of the input itself: the scope context of
\* its request, whether the answer came from the cache, and how often a
\* provider was called
NoCompile == [scope_context |-> None, cache_hit |-> FALSE, provider_calls |-> 0]

CompileOf(req, r) ==
    [scope_context |-> req.scope_context,
     cache_hit |-> r.out.ok /\ r.out.cache_hit,
     provider_calls |-> Len(Ops(r.log, "call"))]

NewTurn(s, line) ==
    [valid |-> TRUE, pc |-> "prompt", input |-> line, candidate_js |-> <<>>,
     attempt |-> 0, initial_error |-> <<>>, runtime_error |-> <<>>,
     before |-> SessionContext(s), event |-> ReplEvent("none", TRUE, <<>>),
     outcome |-> "none", translation_heals |-> 0, runtime_heals |-> 0,
     evals |-> 0, repair |-> NoRepair, lap |-> 0, compiled |-> None,
     typed |-> <<>>, scope_read |-> "none", initial |-> NoCompile]

\* a session in which inputs lines were read that left nothing behind
ReplInitAfter(inputs) ==
    /\ cache = EmptyCache
    /\ last = NoCall
    /\ calls = 0
    /\ \E cfg \in ReplConfigs :
          session = [valid |-> TRUE, config |-> cfg, known_bindings |-> {},
                     statement_history |-> <<>>, js_history |-> <<>>,
                     globals |-> BaselineGlobals, inputs |-> inputs,
                     web_active |-> FALSE]
    /\ turn = NewTurn([known_bindings |-> {}, statement_history |-> <<>>,
                       js_history |-> <<>>], <<>>)
    /\ IdleExcept({"compiler", "repl"})

ReplInit == ReplInitAfter(0)

\* the attempt counter of the model stays below MaxAttempts
WithinModel(attempt) == attempt < MaxAttempts

\* attempt += 1; in a session without limit, where nothing compares the
\* counter, it stays at the last value of the model
next_attempt(attempt, limit) ==
    IF limit = None /\ attempt + 1 >= MaxAttempts THEN attempt
    ELSE attempt + 1

\* the rounds the counter of the model does not count, modulo 2: a round
\* taken at the last value of the model is still a step of the loop
next_lap(lap, attempt, limit) ==
    IF limit = None /\ attempt + 1 >= MaxAttempts THEN 1 - lap ELSE lap

\* the tallies of a turn, which stop at MaxAttempts
Tally(n) == IF n < MaxAttempts THEN n + 1 ELSE n

Finished(t, outcome) ==
    [t EXCEPT !.pc = "prompt", !.outcome = outcome, !.lap = 0]

\* main.rs 518-583: a line is read, trimmed and compiled
ReadLine ==
    /\ session.valid /\ turn.pc = "prompt" /\ session.inputs < MaxInputs
    /\ \E line \in InputLines : \E trimmed \in {Trim(line)} :
         \E req \in {ScopedRequest(
                        ReplRequest(session.config, trimmed, ID_repl),
                        ScopeOf(session))} :
         \E t0 \in {[NewTurn(session, trimmed) EXCEPT !.typed = line]} :
         LET logged(t, r) ==
                 [t EXCEPT !.event =
                     ReplEvent("compile", r.out.ok,
                               IF r.out.ok THEN <<>>
                               ELSE error_text(r.out.error)),
                           !.compiled =
                               IF r.out.ok THEN Some(r.out.javascript)
                               ELSE None,
                           !.initial = CompileOf(req, r)]
             of_sanitized(r, sanitized_js) ==
                 IF Trim(sanitized_js) = <<>>
                 THEN Finished(logged(t0, r), "empty")
                 ELSE [logged(t0, r) EXCEPT !.pc = "eval",
                                            !.candidate_js = sanitized_js]
             of_compiled(r) ==
                 /\ cache' = r.cache
                 /\ turn' = IF r.out.ok
                            THEN of_sanitized(r,
                                    sanitize_repl_javascript(r.out.javascript))
                            ELSE [logged(t0, r) EXCEPT
                                     !.pc = "heal_translation",
                                     !.initial_error = error_text(r.out.error)]
         IN \E env \in ReplEnvs(session.config, req, cache) :
            \E r \in {compile(req, cache, env)} : of_compiled(r)
    /\ session' = [session EXCEPT !.inputs = @ + 1]
    /\ UNCHANGED <<last, calls>>
    /\ UnchangedExcept({"compiler", "repl"})

\* the request of a repair compile of the session
ReplHealRequest(s, t, generated_js, err_text) ==
    ScopedRequest(
        ReplRequest(s.config,
                    build_repl_self_heal_request(t.input, generated_js,
                                                 err_text, t.attempt),
                    ID_repl_self_heal(t.attempt)),
        ScopeOf(s))

\* main.rs 616-626: what follows the repair compile of a round of the
\* translation repair loop
translation_outcome(cfg, t, h) ==
    LET logged(h_) ==
            [t EXCEPT !.event = ReplEvent("heal", h_.ok, h_.text),
                      !.repair = h_.repair,
                      !.translation_heals = Tally(@)]
        next_round(u) ==
            IF can_continue_self_heal(u.attempt + 1, cfg.self_heal_limit)
            THEN [u EXCEPT !.attempt = next_attempt(@, cfg.self_heal_limit),
                           !.lap = next_lap(@, u.attempt,
                                            cfg.self_heal_limit)]
            ELSE Finished([u EXCEPT !.attempt = @ + 1], "translation_failed")
    IN [cache |-> h.cache,
        turn |-> IF h.ok
                 THEN [logged(h) EXCEPT !.pc = "eval", !.candidate_js = h.js,
                                        !.attempt = 0, !.lap = 0]
                 ELSE IF is_non_recoverable_self_heal_error(h.text)
                 THEN Finished(logged(h), "translation_failed")
                 ELSE next_round(logged(h))]

\* main.rs 588-626: one round of the translation repair loop, under what
\* the outside world answers to its compile
translation_round(s, t, c, env) ==
    translation_outcome(
        s.config, t,
        compile_repl_heal_candidate(
            s.config, c, env, ScopeOf(s),
            build_repl_self_heal_request(t.input, None, t.initial_error,
                                         t.attempt),
            t.attempt))

\* main.rs 584-637: one round of the translation repair loop
HealTranslation ==
    /\ session.valid /\ turn.pc = "heal_translation"
    /\ WithinModel(turn.attempt)
    /\ \E cfg \in {session.config} :
       \E heal_prompt \in {build_repl_self_heal_request(
                             turn.input, None, turn.initial_error,
                             turn.attempt)} :
       \E heal_scope \in {ScopeOf(session)} :
       \E env \in ReplEnvs(cfg,
                     ScopedRequest(
                         ReplRequest(cfg, heal_prompt,
                                     ID_repl_self_heal(turn.attempt)),
                         heal_scope), cache) :
       \E h \in {compile_repl_heal_candidate(cfg, cache, env, heal_scope,
                                              heal_prompt, turn.attempt)} :
       \E r \in {translation_outcome(cfg, turn, h)} :
          /\ cache' = r.cache
          /\ turn' = r.turn
    /\ UNCHANGED <<last, calls, session>>
    /\ UnchangedExcept({"compiler", "repl"})

\* slip: the histories are pushed whatever the evaluation answered
session_after_eval_always_pushed(s, t, o, read_ok) ==
    LET globals == s.globals \cup o.defines
        current == {n \in globals \ BaselineGlobals : ~starts_with_klumo(n)}
    IN [s EXCEPT
          !.globals = globals,
          !.web_active = @ \/ (o.ok /\ o.web_start),
          !.statement_history = push_bounded(@, t.input, REPL_HISTORY_LIMIT),
          !.js_history = push_bounded(@, t.candidate_js, REPL_HISTORY_LIMIT),
          !.known_bindings = IF o.ok /\ read_ok THEN current ELSE @]

\* slip: the names of the baseline snapshot are not taken out
session_after_eval_with_baseline(s, t, o, read_ok) ==
    LET globals == s.globals \cup o.defines
        current == {n \in globals : ~starts_with_klumo(n)}
    IN IF o.ok
       THEN [s EXCEPT
               !.globals = globals,
               !.web_active = @ \/ o.web_start,
               !.statement_history =
                   push_bounded(@, t.input, REPL_HISTORY_LIMIT),
               !.js_history =
                   push_bounded(@, t.candidate_js, REPL_HISTORY_LIMIT),
               !.known_bindings = IF read_ok THEN current ELSE @]
       ELSE [s EXCEPT !.globals = globals]

\* slip: the generated JavaScript of the input is not pushed
session_after_eval_statement_only(s, t, o, read_ok) ==
    LET globals == s.globals \cup o.defines
        current == {n \in globals \ BaselineGlobals : ~starts_with_klumo(n)}
    IN IF o.ok
       THEN [s EXCEPT
               !.globals = globals,
               !.web_active = @ \/ o.web_start,
               !.statement_history =
                   push_bounded(@, t.input, REPL_HISTORY_LIMIT),
               !.known_bindings = IF read_ok THEN current ELSE @]
       ELSE [s EXCEPT !.globals = globals]

\* main.rs 711-738: the session after an evaluation; only an output is
\* followed by the update of the histories and of the tracked bindings; the
\* web commands the script queued are applied at the end of the input
session_after_eval(s, t, o, read_ok) ==
    LET globals == s.globals \cup o.defines
        current == {n \in globals \ BaselineGlobals : ~starts_with_klumo(n)}
    IN IF o.ok
       THEN [s EXCEPT
               !.globals = globals,
               !.web_active = @ \/ o.web_start,
               !.statement_history =
                   push_bounded(@, t.input, REPL_HISTORY_LIMIT),
               !.js_history =
                   push_bounded(@, t.candidate_js, REPL_HISTORY_LIMIT),
               !.known_bindings = IF read_ok THEN current ELSE @]
       ELSE [s EXCEPT !.globals = globals]

\* main.rs 646-652, 711-728: the candidate is evaluated; a success ends the
\* loop and updates the session
Eval ==
    /\ session.valid /\ turn.pc = "eval"
    /\ WithinModel(turn.attempt)
    /\ \E o \in EvalOutcomes : \E read_ok \in BOOLEAN :
         /\ o.ok \/ ~read_ok
         /\ session' = session_after_eval(session, turn, o, read_ok)
         /\ turn' = IF o.ok
                    THEN Finished(
                           [turn EXCEPT !.event = ReplEvent("eval", TRUE, <<>>),
                                        !.evals = Tally(@),
                                        !.scope_read =
                                            IF read_ok THEN "ok" ELSE "failed"],
                           "success")
                    ELSE [turn EXCEPT
                            !.pc = "heal_runtime",
                            !.evals = Tally(@),
                            !.runtime_error = <<o.error>>,
                            !.event = ReplEvent("eval", FALSE, <<o.error>>)]
    /\ UNCHANGED compiler_vars
    /\ UnchangedExcept({"compiler", "repl"})

\* slip: after a failure whose probable cause is a type error, a failed
\* repair ends the loop
runtime_outcome_by_cause(cfg, t, h) ==
    LET logged(h_) ==
            [t EXCEPT !.event = ReplEvent("heal", h_.ok, h_.text),
                      !.repair = h_.repair,
                      !.runtime_heals = Tally(@)]
        next_round(u) ==
            IF can_continue_self_heal(u.attempt + 1, cfg.self_heal_limit)
            THEN [u EXCEPT !.attempt = next_attempt(@, cfg.self_heal_limit),
                           !.lap = next_lap(@, u.attempt,
                                            cfg.self_heal_limit),
                           !.pc = "eval"]
            ELSE Finished([u EXCEPT !.attempt = @ + 1], "limit")
        decided ==
            IF h.ok
            THEN next_round([logged(h) EXCEPT !.candidate_js = h.js])
            ELSE IF is_non_recoverable_self_heal_error(h.text)
            THEN Finished(logged(h), "runtime_error")
            ELSE next_round(logged(h))
    IN [cache |-> h.cache,
        turn |-> IF ~h.ok /\ probable_cause(t.runtime_error) = CAUSE_type
                 THEN Finished(logged(h), "runtime_error")
                 ELSE decided]

\* main.rs 683-700: what follows the repair compile of a round of the
\* runtime repair loop
runtime_outcome(cfg, t, h) ==
    LET logged(h_) ==
            [t EXCEPT !.event = ReplEvent("heal", h_.ok, h_.text),
                      !.repair = h_.repair,
                      !.runtime_heals = Tally(@)]
        next_round(u) ==
            IF can_continue_self_heal(u.attempt + 1, cfg.self_heal_limit)
            THEN [u EXCEPT !.attempt = next_attempt(@, cfg.self_heal_limit),
                           !.lap = next_lap(@, u.attempt,
                                            cfg.self_heal_limit),
                           !.pc = "eval"]
            ELSE Finished([u EXCEPT !.attempt = @ + 1], "limit")
        decided ==
            IF h.ok
            THEN next_round([logged(h) EXCEPT !.candidate_js = h.js])
            ELSE IF is_non_recoverable_self_heal_error(h.text)
            THEN Finished(logged(h), "runtime_error")
            ELSE next_round(logged(h))
    IN [cache |-> h.cache, turn |-> decided]

\* main.rs 653-700: the repair compile that follows a failed evaluation,
\* under what the outside world answers to it
runtime_round(s, t, c, env) ==
    runtime_outcome(
        s.config, t,
        compile_repl_heal_candidate(
            s.config, c, env, ScopeOf(s),
            build_repl_self_heal_request(t.input, Some(t.candidate_js),
                                         t.runtime_error, t.attempt),
            t.attempt))

\* main.rs 653-709: the failed evaluation is followed by a repair compile
HealRuntime ==
    /\ session.valid /\ turn.pc = "heal_runtime"
    /\ \E cfg \in {session.config} :
       \E heal_prompt \in {build_repl_self_heal_request(
                             turn.input, Some(turn.candidate_js),
                             turn.runtime_error, turn.attempt)} :
       \E heal_scope \in {ScopeOf(session)} :
       \E env \in ReplEnvs(cfg,
                     ScopedRequest(
                         ReplRequest(cfg, heal_prompt,
                                     ID_repl_self_heal(turn.attempt)),
                         heal_scope), cache) :
       \E h \in {compile_repl_heal_candidate(cfg, cache, env, heal_scope,
                                              heal_prompt, turn.attempt)} :
       \E r \in {runtime_outcome(cfg, turn, h)} :
          /\ cache' = r.cache
          /\ turn' = r.turn
    /\ UNCHANGED <<last, calls, session>>
    /\ UnchangedExcept({"compiler", "repl"})

\* ------------------------------------------------- run_command (klumo-cli)
MaxHealAttempts == 2

ID_boom_js == <<"b", "o", "o", "m", ".", "j", "s">>
ID_boom_ts == <<"b", "o", "o", "m", ".", "t", "s">>
ID_boom_MJS == <<"b", "o", "o", "m", ".", "M", "J", "S">>
ID_boom_jsx == <<"b", "o", "o", "m", ".", "j", "s", "x">>
RunFiles == {ID_boom_js, ID_boom_ts, ID_boom_MJS, ID_boom_jsx}
TEXT_older == <<"console.log('older')">>
TEXT_boom == <<"throw new Error('boom')">>
STR_jsx == <<"j","s","x">>
STR_self_heal == <<"self-heal">>
STR_self_heal_javascript == <<"self-heal-javascript">>
MSG_file_eval_failed == "failed evaluating script"
MSG_self_heal_empty == "self-heal generated empty output"

\* usize::to_string over the numbers that occur
to_string(n) == IF n = 0 THEN "0" ELSE DecimalText(n)

is_self_heal_supported_source(file) ==
    LET d == LastDot(file) IN
    IF d = 0 THEN FALSE
    ELSE to_ascii_lowercase(SubSeq(file, d + 1, Len(file)))
            \in {STR_js, STR_mjs, STR_cjs, STR_jsx}

build_self_heal_request(path, source, err_text) ==
    <<"File: ">> \o path \o <<"Runtime error:">> \o err_text
    \o <<"SOURCE START">> \o source \o <<"SOURCE END">>

RunConfigs ==
    {[self_heal |-> heal, max_heal_attempts |-> k, provider_selection |-> sel,
      has_api_key |-> key, no_cache |-> TRUE, file |-> file] :
        heal \in BOOLEAN, k \in 0..MaxHealAttempts, sel \in ProviderSelection,
        key \in BOOLEAN, file \in RunFiles}

\* compile_file: the request of run_file for the file as it is on disk
FileRequest(cfg, source) ==
    Request(source, cfg.file, None, None, FALSE, cfg.provider_selection, None,
            cfg.no_cache)

\* the request of try_self_heal
HealRequest(cfg, source, err_text, attempt) ==
    Request(build_self_heal_request(cfg.file, source, err_text),
            cfg.file \o <<"#self-heal-", to_string(attempt + 1)>>,
            Some(KindUnknown(STR_self_heal)), Some(STR_self_heal_javascript),
            TRUE, cfg.provider_selection, None, TRUE)

RunFailure(message) == [ok |-> FALSE, message |-> message]
RunSuccess == [ok |-> TRUE, message |-> <<>>]

TXT_failed_running == "failed running "
TXT_unsupported == " (self-heal currently supports .js/.mjs/.cjs/.jsx)"
TXT_after == " after "
TXT_attempts == " self-heal attempts: "
TXT_self_heal_failed == "self-heal failed for "

\* slip: the repair is tried whether or not --self-heal was given
on_run_error_without_flag(r, err_text) ==
    LET cfg == r.config IN
    IF ~is_self_heal_supported_source(cfg.file)
    THEN [r EXCEPT !.pc = "done",
             !.result = RunFailure(<<TXT_failed_running>> \o cfg.file
                                   \o <<TXT_unsupported, ": ">> \o err_text)]
    ELSE IF r.attempt >= cfg.max_heal_attempts
    THEN [r EXCEPT !.pc = "done",
             !.result = RunFailure(
                 <<TXT_failed_running>> \o cfg.file
                 \o <<TXT_after, to_string(cfg.max_heal_attempts), TXT_attempts>>
                 \o err_text)]
    ELSE [r EXCEPT !.pc = "try_self_heal", !.error_text = err_text]

\* slip: the loop gives up one round late (attempt > max_heal_attempts)
on_run_error_one_more(r, err_text) ==
    LET cfg == r.config IN
    IF ~cfg.self_heal
    THEN [r EXCEPT !.pc = "done",
             !.result = RunFailure(<<TXT_failed_running>> \o cfg.file
                                   \o <<": ">> \o err_text)]
    ELSE IF ~is_self_heal_supported_source(cfg.file)
    THEN [r EXCEPT !.pc = "done",
             !.result = RunFailure(<<TXT_failed_running>> \o cfg.file
                                   \o <<TXT_unsupported, ": ">> \o err_text)]
    ELSE IF r.attempt > cfg.max_heal_attempts
    THEN [r EXCEPT !.pc = "done",
             !.result = RunFailure(
                 <<TXT_failed_running>> \o cfg.file
                 \o <<TXT_after, to_string(cfg.max_heal_attempts), TXT_attempts>>
                 \o err_text)]
    ELSE [r EXCEPT !.pc = "try_self_heal", !.error_text = err_text]

\* main.rs 326-349, 365-375: what run_command does with a failed run_file
on_run_error(r, err_text) ==
    LET cfg == r.config IN
    IF ~cfg.self_heal
    THEN [r EXCEPT !.pc = "done",
             !.result = RunFailure(<<TXT_failed_running>> \o cfg.file
                                   \o <<": ">> \o err_text)]
    ELSE IF ~is_self_heal_supported_source(cfg.file)
    THEN [r EXCEPT !.pc = "done",
             !.result = RunFailure(<<TXT_failed_running>> \o cfg.file
                                   \o <<TXT_unsupported, ": ">> \o err_text)]
    ELSE IF r.attempt >= cfg.max_heal_attempts
    THEN [r EXCEPT !.pc = "done",
             !.result = RunFailure(
                 <<TXT_failed_running>> \o cfg.file
                 \o <<TXT_after, to_string(cfg.max_heal_attempts), TXT_attempts>>
                 \o err_text)]
    ELSE [r EXCEPT !.pc = "try_self_heal", !.error_text = err_text]

\* slip: a failed repair is followed by the next attempt
on_heal_result_next_attempt(r, h) ==
    IF ~h.ok
    THEN [r EXCEPT !.pc = "run_file", !.attempt = @ + 1]
    ELSE [r EXCEPT !.pc = "run_file", !.attempt = @ + 1, !.source = h.js]

\* slip: the output of the repair is written before it is looked at
on_heal_result_written_first(r, h) ==
    IF ~h.ok
    THEN [r EXCEPT !.pc = "done", !.source = h.js,
             !.result = RunFailure(<<TXT_self_heal_failed>> \o r.config.file
                                   \o <<": ">> \o h.text)]
    ELSE [r EXCEPT !.pc = "run_file", !.attempt = @ + 1, !.source = h.js]

\* main.rs 359-364: a failed try_self_heal ends the run, a patch is run
\* in the next round of the loop
on_heal_result(r, h) ==
    IF ~h.ok
    THEN [r EXCEPT !.pc = "done",
             !.result = RunFailure(<<TXT_self_heal_failed>> \o r.config.file
                                   \o <<": ">> \o h.text)]
    ELSE [r EXCEPT !.pc = "run_file", !.attempt = @ + 1, !.source = h.js]

\* slip: the working file is copied to the backup path at every repair
backup_after_every_repair(backup, source) == Some(source)

\* slip: no backup is made
backup_after_without_copy(backup, source) == backup

\* self_heal.rs 80-92: the backup path after try_self_heal looked at it; the
\* working file is copied there when nothing exists at the path
backup_after(backup, source) ==
    IF backup = None THEN Some(source) ELSE backup

\* self_heal.rs 73-124, the file system doing what it is asked
try_self_heal(cfg, c, env, source, err_text, attempt) ==
    LET req == HealRequest(cfg, source, err_text, attempt)
        of_compiled(r) ==
            IF ~r.out.ok
            THEN [ok |-> FALSE, js |-> <<>>, text |-> error_text(r.out.error),
                  answered |-> FALSE, repair |-> RepairOf(req, r)]
            ELSE IF Trim(r.out.javascript) = <<>>
            THEN [ok |-> FALSE, js |-> <<>>, text |-> <<MSG_self_heal_empty>>,
                  answered |-> TRUE, repair |-> RepairOf(req, r)]
            ELSE [ok |-> TRUE, js |-> r.out.javascript, text |-> <<>>,
                  answered |-> TRUE, repair |-> RepairOf(req, r)]
    IN of_compiled(compile(req, c, env))

NoRunFile ==
    [ok |-> TRUE, compiled |-> None, evaluated |-> None, error |-> <<>>,
     answered |-> FALSE]

\* slip: the engine is given the text of the file
run_file_evaluating_source(req, c, env, eval_ok) ==
    LET of_compiled(r) ==
            IF ~r.out.ok
            THEN [ok |-> FALSE, compiled |-> None, evaluated |-> None,
                  error |-> error_text(r.out.error), answered |-> FALSE]
            ELSE [ok |-> eval_ok, compiled |-> Some(r.out.javascript),
                  evaluated |-> Some(req.source_text),
                  error |-> IF eval_ok THEN <<>> ELSE <<MSG_file_eval_failed>>,
                  answered |-> IsSome(r.out.provider)]
    IN of_compiled(compile(req, c, env))

\* core 53-109: compile_file, then eval_script of the compiled JavaScript;
\* eval_ok is what the engine makes of it
run_file(req, c, env, eval_ok) ==
    LET of_compiled(r) ==
            IF ~r.out.ok
            THEN [ok |-> FALSE, compiled |-> None, evaluated |-> None,
                  error |-> error_text(r.out.error), answered |-> FALSE]
            ELSE [ok |-> eval_ok, compiled |-> Some(r.out.javascript),
                  evaluated |-> Some(r.out.javascript),
                  error |-> IF eval_ok THEN <<>> ELSE <<MSG_file_eval_failed>>,
                  answered |-> IsSome(r.out.provider)]
    IN of_compiled(compile(req, c, env))

\* a run starts with the file as written by the user; a backup of an
\* earlier run may lie beside it
RunInit ==
    /\ cache = EmptyCache
    /\ last = NoCall
    /\ calls = 0
    /\ \E cfg \in RunConfigs : \E backup \in {None, Some(TEXT_older)} :
          run = [valid |-> TRUE, config |-> cfg, pc |-> "run_file",
                 attempt |-> 0, source |-> TEXT_boom, backup |-> backup,
                 backup_at_start |-> backup, error_text |-> <<>>,
                 repairs |-> 0, answers |-> 0, evals |-> 0, runs |-> 0,
                 writes |-> 0, copies |-> 0,
                 event |-> ReplEvent("none", TRUE, <<>>),
                 last_run |-> NoRunFile, repair |-> NoRepair,
                 result |-> RunSuccess]
    /\ IdleExcept({"compiler", "run"})

\* main.rs 320-325, core 53-109: run_file compiles the file and evaluates it
RunFile ==
    /\ run.valid /\ run.pc = "run_file"
    /\ \E cfg \in {run.config} :
       \E req \in {FileRequest(cfg, run.source)} :
       LET ran(f) ==
               [run EXCEPT
                  !.runs = @ + 1,
                  !.last_run = f,
                  !.evals = IF IsSome(f.evaluated) THEN @ + 1 ELSE @,
                  !.answers = IF f.answered THEN @ + 1 ELSE @,
                  !.event = IF IsSome(f.evaluated)
                            THEN ReplEvent("eval", f.ok, f.error)
                            ELSE ReplEvent("compile", FALSE, f.error)]
           of_run(f, r) ==
               run' = IF f.ok
                      THEN [r EXCEPT !.pc = "done", !.result = RunSuccess]
                      ELSE on_run_error(r, f.error)
       IN \E env \in ReplEnvs(cfg, req, cache) : \E eval_ok \in BOOLEAN :
          \E f \in {run_file(req, cache, env, eval_ok)} :
             /\ eval_ok \/ IsSome(f.compiled)
             /\ \E r \in {ran(f)} : of_run(f, r)
    /\ UNCHANGED compiler_vars
    /\ UnchangedExcept({"compiler", "run"})

\* main.rs 350-364, self_heal.rs 73-124: one repair of the file
TrySelfHeal ==
    /\ run.valid /\ run.pc = "try_self_heal"
    /\ \E cfg \in {run.config} :
       \E req \in {HealRequest(cfg, run.source, run.error_text, run.attempt)} :
       LET of_heal(h) ==
               run' = on_heal_result(
                         [run EXCEPT
                            !.repairs = @ + 1,
                            !.answers = IF h.answered THEN @ + 1 ELSE @,
                            !.copies = IF backup_after(run.backup, run.source)
                                          # run.backup THEN @ + 1 ELSE @,
                            !.backup = backup_after(@, run.source),
                            !.writes = IF h.ok THEN @ + 1 ELSE @,
                            !.repair = h.repair,
                            !.event = ReplEvent("heal", h.ok, h.text)], h)
       IN \E env \in ReplEnvs(cfg, req, cache) :
          \E h \in {try_self_heal(cfg, cache, env, run.source, run.error_text,
                                   run.attempt)} : of_heal(h)
    /\ UNCHANGED compiler_vars
    /\ UnchangedExcept({"compiler", "run"})

\* ------------------------------------------------- both ways of repairing
RepairInit == ReplInit \/ RunInit

RepairNext ==
    ReadLine \/ HealTranslation \/ Eval \/ HealRuntime \/ RunFile \/ TrySelfHeal

SpecRepair == RepairInit /\ [][RepairNext]_vars

\* ----------------------------------------------------------------- C16
\* the processing of the latest input is over
InputEnded == session.valid /\ turn.pc = "prompt" /\ turn.event.op # "none"

\* the latest thing done for the input was a successful evaluation
EndedInSuccess == turn.event.op = "eval" /\ turn.event.ok

\* C16: an input whose processing ends without a successful evaluation
\* (translation failure, empty result after module-syntax stripping, repair
\* budget exhausted, non-recoverable repair failure) leaves the tracked
\* bindings, the statement history and the generated-JS history exactly as
\* they were before the input.
C16_SessionOnlyChangedBySuccess ==
    (InputEnded /\ ~EndedInSuccess) => SessionContext(session) = turn.before

\* the second input runs out of repair budget after a first input that
\* succeeded, and its failed evaluation left a global behind
C16_Witness ==
    /\ InputEnded /\ turn.outcome = "limit"
    /\ Len(session.statement_history) = 1
    /\ session.known_bindings = {"a"}
    /\ "b" \in session.globals

\* ----------------------------------------------------------------- C18
\* a finished whole-file run of a supported source with self-heal enabled
\* that failed and in which no provider call was answered
AlwaysFailingRun ==
    /\ run.valid /\ run.pc = "done" /\ ~run.result.ok
    /\ run.config.self_heal
    /\ is_self_heal_supported_source(run.config.file)
    /\ run.answers = 0

NamesAttemptCount(message, k) ==
    \E i \in 1..(Len(message) - 2) :
       SubSeq(message, i, i + 2) = <<TXT_after, to_string(k), TXT_attempts>>

\* C18 (as stated): with self-heal enabled, a bound of k and a provider
\* that fails on every call, exactly k repair attempts occur and the final
\* failure names the attempt count.
C18_ExactlyKRepairs ==
    AlwaysFailingRun =>
       /\ run.repairs = run.config.max_heal_attempts
       /\ NamesAttemptCount(run.result.message, run.config.max_heal_attempts)

\* C18 (amended): with a provider that fails on every call the first repair
\* attempt is the last one: no repair is attempted when k = 0 and the
\* failure names the count 0, exactly one is attempted when k >= 1 and the
\* failure is "self-heal failed for <file>" followed by the provider's
\* error. The failure that names the attempt count k ends exactly the runs
\* in which k repairs were attempted and the file failed once more.
C18_FirstFailedRepairEndsRun ==
    /\ AlwaysFailingRun =>
          IF run.config.max_heal_attempts = 0
          THEN /\ run.repairs = 0
               /\ NamesAttemptCount(run.result.message, 0)
          ELSE /\ run.repairs = 1
               /\ Head(run.result.message) = TXT_self_heal_failed
               /\ ~NamesAttemptCount(run.result.message,
                                     run.config.max_heal_attempts)
               /\ \E i \in 1..Len(run.result.message) :
                     run.result.message[i] \in {MSG_api_key,
                                                MSG_ollama_unreachable,
                                                MSG_openai_failed}
    /\ (/\ run.valid /\ run.pc = "done" /\ ~run.result.ok
        /\ NamesAttemptCount(run.result.message,
                             run.config.max_heal_attempts))
       => /\ run.repairs = run.config.max_heal_attempts
          /\ run.runs = run.config.max_heal_attempts + 1

\* a bound of two, one repair attempt, the run over
C18_Witness ==
    /\ AlwaysFailingRun
    /\ run.config.max_heal_attempts = 2
    /\ run.repairs = 1

\* ----------------------------------------------------------------- C19
\* the latest event is a repair compile that failed for want of the API key
MissingCredential(event) ==
    /\ event.op = "heal" /\ ~event.ok
    /\ \E i \in 1..Len(event.text) : event.text[i] = MSG_api_key

\* C19: once a repair compile has failed with the missing-credential error,
\* the processing of the input (interactive) or the run (whole-file) is
\* over: no further repair compile and no further execution follows, even
\* with budget left.
C19_MissingCredentialStopsRepair ==
    /\ (session.valid /\ MissingCredential(turn.event)) => turn.pc = "prompt"
    /\ (run.valid /\ MissingCredential(run.event)) => run.pc = "done"

\* the runtime repair loop of a session without attempt limit, stopped at
\* its first round
C19_Witness ==
    /\ session.valid /\ MissingCredential(turn.event)
    /\ turn.runtime_error # <<>>
    /\ session.config.self_heal_limit = None
    /\ turn.attempt = 0

\* ----------------------------------------------------------------- C20
\* the latest event is a repair compile that failed because the call to the
\* selected provider, Ollama, could not connect
Unreachable(cfg, event) ==
    /\ cfg.provider_selection = SelOllama
    /\ event.op = "heal" /\ ~event.ok
    /\ \E i \in 1..Len(event.text) : event.text[i] = MSG_ollama_unreachable

\* C20: once a repair compile has failed because the selected provider is
\* unreachable, the repair loop is over, whatever budget is left, in the
\* interactive and in the whole-file flavor.
C20_UnreachableStopsRepair ==
    /\ (session.valid /\ Unreachable(session.config, turn.event))
          => turn.pc = "prompt"
    /\ (run.valid /\ Unreachable(run.config, run.event)) => run.pc = "done"

\* ----------------------------------------------------------------- C21
\* the input is in, or ended in, the runtime repair loop
InRuntimePhase == session.valid /\ turn.runtime_error # <<>>

\* the latest thing done for the input was a repair compile that answered
\* with a candidate
HoldsUnrunCandidate == turn.event.op = "heal" /\ turn.event.ok

\* C21: in the runtime repair loop the processing of an input never ends
\* while the candidate of a successful repair compile has not been given to
\* the engine.
C21_RepairedCandidateIsRun ==
    ~(InputEnded /\ InRuntimePhase /\ HoldsUnrunCandidate)

\* ----------------------------------------------------------------- C22
\* the repair compile was forced to the provider and kept away from the cache
BypassesCache(repair) ==
    repair.issued =>
       /\ repair.force_llm /\ repair.no_cache
       /\ ~repair.cache_hit /\ repair.cache_ops = 0

\* C22: every repair compile request, interactive or whole-file, has
\* force_llm = true and caching disabled; it is neither answered from the
\* cache nor written to it.
C22_RepairBypassesCache ==
    /\ session.valid => BypassesCache(turn.repair)
    /\ run.valid => BypassesCache(run.repair)

\* ----------------------------------------------------------------- C23
\* C23: a backup file that exists is never written or replaced, whether it
\* was made by this run or lay there when the run started, and a run copies
\* the working file to the backup path at most once.
C23_BackupWrittenOnce ==
    /\ [][(run.valid /\ run.backup # None) => run'.backup = run.backup]_vars
    /\ [](run.valid =>
            /\ run.copies <= 1
            /\ run.backup_at_start # None =>
                  run.copies = 0 /\ run.backup = run.backup_at_start)

\* two repairs were written over the file of a run that made its backup at
\* the first of them
C23_Witness ==
    /\ run.valid /\ run.writes = 2 /\ run.copies = 1
    /\ run.backup = Some(TEXT_boom) /\ run.source # TEXT_boom

\* ----------------------------------------------------------------- C28
\* C28: in a run that started without a backup file, once a repair has
\* overwritten the working file the backup exists and holds the content the
\* working file had when the run started.
C28_BackupPrecedesRepairWrite ==
    (run.valid /\ run.backup_at_start = None /\ run.writes > 0)
       => run.backup = Some(TEXT_boom)

\* the first repair has just been written
C28_Witness ==
    /\ run.valid /\ run.backup_at_start = None
    /\ run.writes = 1 /\ run.pc = "run_file" /\ run.source # TEXT_boom

\* ----------------------------------------------------------------- C24
\* the extension after the last dot is js, mjs, cjs or jsx in any case
RepairableExtension(file) ==
    \E d \in 1..Len(file) :
       /\ file[d] = "." /\ \A j \in (d + 1)..Len(file) : file[j] # "."
       /\ to_ascii_lowercase(SubSeq(file, d + 1, Len(file)))
             \in {<<"j","s">>, <<"m","j","s">>, <<"c","j","s">>,
                  <<"j","s","x">>}

\* the run has neither asked for a repair nor touched the file or a backup
NothingRepaired ==
    /\ run.repairs = 0 /\ ~run.repair.issued
    /\ run.copies = 0 /\ run.backup = run.backup_at_start
    /\ run.writes = 0 /\ run.source = TEXT_boom

\* C24: a repair is attempted only with self-heal enabled, an extension
\* among js, mjs, cjs, jsx (in any case) and fewer than max_heal_attempts
\* repairs made; with self-heal disabled or an unsupported extension the
\* first failure is returned at once: one run_file, no repair request, no
\* backup, no write.
C24_RepairOnlyWhenEligible ==
    /\ [][(run.valid /\ run'.repairs > run.repairs) =>
             /\ run.config.self_heal
             /\ RepairableExtension(run.config.file)
             /\ run.repairs < run.config.max_heal_attempts]_vars
    /\ [](/\ run.valid
          /\ ~run.config.self_heal \/ ~RepairableExtension(run.config.file)
          => /\ NothingRepaired
             /\ run.runs <= 1
             /\ (run.runs = 1 /\ ~run.last_run.ok) =>
                   /\ run.pc = "done" /\ ~run.result.ok
                   /\ Head(run.result.message) = TXT_failed_running
                   /\ ~NamesAttemptCount(run.result.message,
                                         run.config.max_heal_attempts))

\* boom.MJS is repaired once under a bound of one
C24_Witness ==
    /\ run.valid /\ run.config.file = ID_boom_MJS
    /\ run.config.max_heal_attempts = 1 /\ run.repairs = 1

\* ----------------------------------------------------------------- C25
\* the error of a failed compile, as run_file returns it
IsCompileError(text) == text # <<>> /\ Head(text) = "LLM routing failed after"

\* C25: run_file gives the engine exactly the JavaScript of a successful
\* compile; after a failed compile the engine is not invoked and the
\* compile error is returned; a failed evaluation returns the evaluation
\* error.
C25_EngineRunsCompiledJs ==
    /\ [][(run.valid /\ run'.runs > run.runs) =>
             LET f == run'.last_run IN
             /\ f.compiled = None =>
                   /\ f.evaluated = None /\ run'.evals = run.evals
                   /\ ~f.ok /\ IsCompileError(f.error)
             /\ f.compiled # None =>
                   /\ f.evaluated = f.compiled /\ run'.evals = run.evals + 1
                   /\ ~f.ok => f.error = <<MSG_file_eval_failed>>
             /\ ~f.ok =>
                   \/ run'.error_text = f.error
                   \/ /\ run'.pc = "done" /\ ~run'.result.ok
                      /\ \E i \in 1..Len(run'.result.message) :
                            SubSeq(run'.result.message, i,
                                   Len(run'.result.message)) = f.error]_vars

\* the translation of boom.ts, not its text, was given to the engine
C25_Witness ==
    /\ run.valid /\ run.config.file = ID_boom_ts
    /\ IsSome(run.last_run.evaluated)
    /\ Unwrap(run.last_run.evaluated) # TEXT_boom

\* ----------------------------------------------------------------- C27
\* a finished run of a supported source with self-heal enabled in which
\* every run_file reached the engine, every execution failed and every
\* repair was written
EveryRepairWrittenAndFailing ==
    /\ run.valid /\ run.pc = "done" /\ ~run.result.ok
    /\ run.config.self_heal /\ RepairableExtension(run.config.file)
    /\ run.evals = run.runs /\ run.writes = run.repairs

\* C27: with self-heal enabled, a supported extension and a bound of k, if
\* every execution fails and every repair compile answers non-empty output,
\* there are exactly k + 1 executions and k repair writes, and the run
\* fails with a message that names k and ends with the last execution
\* error; with k = 0 there is one execution and no repair.
C27_ExecutionsAndRepairs ==
    EveryRepairWrittenAndFailing =>
       LET k == run.config.max_heal_attempts
           m == run.result.message
       IN /\ run.evals = k + 1
          /\ run.writes = k /\ run.repairs = k
          /\ NamesAttemptCount(m, k)
          /\ SubSeq(m, Len(m) - Len(run.last_run.error) + 1, Len(m))
                = run.last_run.error
          /\ run.last_run.error = <<MSG_file_eval_failed>>

\* three executions and two repair writes under a bound of two
C27_Witness ==
    /\ EveryRepairWrittenAndFailing
    /\ run.config.max_heal_attempts = 2
    /\ run.evals = 3 /\ run.writes = 2

\* ----------------------------------------------------------------- C29
\* C29: a whole-file repair attempt that fails (the repair compile returns
\* an error, or its output is empty after trimming) leaves the working file
\* as it was and ends the run with the self-heal error; no execution and no
\* repair attempt follows, whatever budget is left.
C29_FailedRepairEndsRun ==
    /\ [][(/\ run.valid /\ run'.repairs > run.repairs
           /\ ~run'.event.ok)
          => /\ run'.source = run.source /\ run'.writes = run.writes
             /\ run'.pc = "done" /\ ~run'.result.ok
             /\ Head(run'.result.message) = TXT_self_heal_failed]_vars
    /\ [][(run.valid /\ run.event.op = "heal" /\ ~run.event.ok)
          => run' = run]_vars

\* the second repair of a run with a bound of three failed after the first
\* was written
C29_Witness ==
    /\ run.valid /\ run.event.op = "heal" /\ ~run.event.ok
    /\ run.repairs = 2 /\ run.writes = 1
    /\ run.config.max_heal_attempts = 2

\* ----------------------------------------------------------------- C30
\* C30: under a finite interactive bound k one input takes at most k repair
\* compiles in the translation repair phase and at most k executions and k
\* repair compiles in the runtime repair phase; each phase counts its
\* attempts from 0, so a runtime phase that follows k - 1 failed
\* translation repairs still has k rounds.
C30_PhasesBoundedSeparately ==
    (session.valid /\ IsSome(session.config.self_heal_limit)) =>
       LET k == Unwrap(session.config.self_heal_limit) IN
       /\ turn.translation_heals <= k
       /\ turn.evals <= k
       /\ turn.runtime_heals <= k
       /\ turn.attempt <= k
       /\ turn.pc = "eval" => turn.attempt = turn.evals
       /\ turn.pc = "heal_translation" =>
             turn.attempt = turn.translation_heals

\* both phases used the whole bound of two
C30_Witness ==
    /\ InputEnded /\ session.config.self_heal_limit = Some(2)
    /\ turn.translation_heals = 2
    /\ turn.evals = 2 /\ turn.runtime_heals = 2

\* ----------------------------------------------------------------- C26
\* The sessions and runs of the Ollama provider with the cache off: the
\* repair loops of the other configurations are the same loops.  A session
\* has its last line to read: the loops of every line are the same loops.
FairInit ==
    /\ ReplInitAfter(MaxInputs - 1) \/ RunInit
    /\ session.valid => /\ session.config.no_cache
                        /\ session.config.provider_selection = SelOllama
    /\ run.valid => /\ run.config.provider_selection = SelOllama
                    /\ ~run.config.has_api_key

\* The program runs on: a compile, an evaluation or a read of the next line
\* that can be taken is taken (main.rs 558-747 and 320-364 are sequential
\* code on one thread).
SpecRepairFair == FairInit /\ [][RepairNext]_vars /\ WF_vars(RepairNext)

\* the session waits for a line, or the run is over
RepairTerminal ==
    \/ session.valid /\ turn.pc = "prompt"
    \/ run.valid /\ run.pc = "done"

\* C26 (as stated): every self-heal loop is bounded: under every
\* configuration, the default interactive limit included, the processing
\* of an input or a run comes to its end, even if every execution fails and
\* every repair failure is recoverable.
C26_EveryLoopEnds == []<>RepairTerminal

UnlimitedSession == session.valid /\ session.config.self_heal_limit = None

\* C26 (amended): the loops of a whole-file run and of an interactive
\* session with KLUMO_REPL_SELF_HEAL_MAX_ATTEMPTS set to a number above 0
\* come to their end; a session in which the variable is unset, 0 or not a
\* number has no limit.
C26_LimitedLoopEnds == UnlimitedSession \/ []<>RepairTerminal

\* the translation repair loop of a session limited to two attempts gave up
C26_Witness ==
    /\ InputEnded /\ session.config.self_heal_limit = Some(2)
    /\ turn.outcome = "translation_failed" /\ turn.attempt = 2
    /\ ~is_non_recoverable_self_heal_error(turn.event.text)

\* ----------------------------------------------------------------- C31
\* the model a compile works with for a provider: the override of the
\* request, else the model configured for the provider
ModelFor(req, provider) ==
    UnwrapOr(req.model_override, ConfiguredModel(provider))

\* C31: for every candidate and optional model override, the model in the
\* key of the candidate's cache lookup, the model its client is called
\* with, the model of the response and the model in the key of the
\* write-back are one value: the override if there is one, else the model
\* configured for the candidate; so the entry written after a candidate
\* answered is what the lookup for that candidate finds for the same
\* request.
C31_OneModelPerCandidate ==
    [][calls' = calls + 1 =>
        LET req == last'.req
            log == last'.log IN
        /\ \A i \in Indices(log, "get") \cup Indices(log, "call")
                     \cup Indices(log, "put") :
              log[i].model = ModelFor(req, log[i].provider)
        /\ \A i \in Indices(log, "get") \cup Indices(log, "put") :
              log[i].key = KeyOf(req, log[i].provider,
                                 ModelFor(req, log[i].provider))
        /\ (last'.out.ok /\ IsSome(last'.out.provider)
             /\ ~last'.out.cache_hit) =>
              last'.out.model =
                 Some(ModelFor(req, Unwrap(last'.out.provider)))
        /\ \A i \in Indices(log, "put") :
              log[i].ok =>
                 get(cache', lookup_key(req,
                        Descriptor(log[i].provider,
                                   ConfiguredModel(log[i].provider))))
                 = Some(CompileResult(last'.out.javascript,
                                      Some(log[i].provider),
                                      Some(ModelFor(req, log[i].provider)),
                                      PROMPT_VERSION, TRUE))]_vars

\* with an override that is not its configured model, the cloud provider
\* answered after the local one had failed, and the entry is under the key
\* that the lookup for the cloud provider computes
C31_Witness ==
    /\ last.valid /\ last.out.ok /\ ~last.out.cache_hit
    /\ last.req.model_override = Some(ollama_model)
    /\ last.out.provider = Some(OpenAiCompatible)
    /\ last.out.model = Some(ollama_model)
    /\ Len(Ops(last.log, "call")) = 2
    /\ IsSome(get(cache, lookup_key(last.req,
                     Descriptor(OpenAiCompatible, openai_model))))

\* ----------------------------------------------------------------- C32
\* an answer that is empty, white space only, or whose first fenced block
\* holds nothing but white space
EmptyAnswer(raw) ==
    LET t == Trimmed(raw)
        block == FirstBlock(t) IN
    \/ t = <<>>
    \/ block # <<0, 0>> /\ Trimmed(SubSeq(t, block[1], block[2])) = <<>>

EmptyOutputErrors ==
    {"LLM returned empty output", "LLM returned empty fenced output"}

\* C32: every success of translate carries JavaScript that is not empty
\* after trimming; a candidate whose raw answer is empty, white space only
\* or an empty fenced block is a failed attempt and the next candidate of
\* the chain is called; the translation path of compile neither returns nor
\* writes an empty translation.
C32_NoEmptyTranslation ==
    /\ (rt.valid /\ rt.op = "translate") =>
          LET cs == Ops(rt.out.log, "call") IN
          /\ rt.out.ok => Trimmed(rt.out.javascript) # <<>>
          /\ \A i \in 1..Len(cs) :
                LET client == rt.clients[cs[i].provider] IN
                (client.ok /\ EmptyAnswer(client.val)) =>
                   /\ ~cs[i].ok
                   /\ i < Len(rt.chain) =>
                         /\ Len(cs) > i
                         /\ cs[i+1].provider = rt.chain[i+1].provider
                   /\ ~rt.out.ok =>
                         /\ rt.out.attempts[i].provider = cs[i].provider
                         /\ rt.out.attempts[i].error \in EmptyOutputErrors
    /\ (last.valid /\ last.out.ok /\ needs_llm(last.req)
         /\ ~last.out.cache_hit) => Trimmed(last.out.javascript) # <<>>
    /\ \A k \in DOMAIN cache :
          cache[k].kind = "payload" => Trimmed(cache[k].javascript) # <<>>

\* the local provider answered with an empty fenced block, which counted as
\* a failure, and the fenced answer of the cloud provider was returned
C32_Witness ==
    /\ rt.valid /\ rt.op = "translate" /\ Len(rt.chain) = 2
    /\ rt.clients[Ollama] = Ok(RAW_fenced_blank)
    /\ rt.out.ok /\ rt.out.provider = OpenAiCompatible
    /\ rt.out.javascript = <<"2">>
    /\ Len(Ops(rt.out.log, "call")) = 2

\* ----------------------------------------------------------------- C33
\* the JavaScript a compile returned, cleaned of module syntax
Cleaned(compiled) == sanitize_repl_javascript(Unwrap(compiled))

\* C33: in the interactive session, the snippet given to the engine for an
\* input is an output of the module-syntax clean-up and is not empty after
\* trimming.  A result that is empty after the clean-up is never executed:
\* after the initial translation the input is dropped with an error and
\* without any repair; after a repair compile the attempt is a failed
\* repair and the candidate stays as it was.
C33_OnlySanitizedSnippetsRun ==
    [][session.valid =>
        /\ turn'.pc = "eval" => Trim(turn'.candidate_js) # <<>>
        /\ (turn.pc = "prompt" /\ turn' # turn /\ IsSome(turn'.compiled)) =>
              IF Trim(Cleaned(turn'.compiled)) = <<>>
              THEN /\ turn'.pc = "prompt" /\ turn'.outcome = "empty"
                   /\ turn'.evals = 0 /\ ~turn'.repair.issued
                   /\ turn'.translation_heals = 0
                   /\ turn'.runtime_heals = 0
              ELSE /\ turn'.pc = "eval"
                   /\ turn'.candidate_js = Cleaned(turn'.compiled)
        /\ (turn.pc \in {"heal_translation", "heal_runtime"} /\ turn' # turn
             /\ IsSome(turn'.repair.javascript)) =>
              IF Trim(Cleaned(turn'.repair.javascript)) = <<>>
              THEN /\ turn'.event = ReplEvent("heal", FALSE, <<MSG_heal_empty>>)
                   /\ turn'.candidate_js = turn.candidate_js
                   /\ turn.pc = "heal_translation" => turn'.pc # "eval"
              ELSE /\ turn'.event.ok
                   /\ turn'.candidate_js = Cleaned(turn'.repair.javascript)
        /\ (turn.pc \in {"heal_translation", "heal_runtime"} /\ turn' # turn
             /\ ~IsSome(turn'.repair.javascript)) =>
              turn'.candidate_js = turn.candidate_js
        /\ turn.pc = "eval" => turn'.candidate_js = turn.candidate_js]_vars

\* a runtime repair came back with nothing but an import: it counted as a
\* failed repair and the candidate that ran before is up for the next run
C33_Witness ==
    /\ session.valid /\ turn.pc = "eval" /\ turn.evals > 0
    /\ turn.repair.javascript = Some(JS_import_only)
    /\ turn.event = ReplEvent("heal", FALSE, <<MSG_heal_empty>>)
    /\ turn.candidate_js = <<"1">>

\* ----------------------------------------------------------------- C34
\* C34: a compile with no_cache set, of a request that needs translation,
\* reads no cache file and writes none, calls the router, answers a success
\* with cache_hit = false, and leaves the cache as it was whatever the
\* outcome is.
C34_NoCacheBypassesCache ==
    [][(calls' = calls + 1 /\ last'.req.no_cache /\ needs_llm(last'.req)) =>
        /\ Indices(last'.log, "get") = {}
        /\ Indices(last'.log, "put") = {}
        /\ Indices(last'.log, "call") # {}
        /\ last'.out.ok => ~last'.out.cache_hit
        /\ cache' = cache]_vars

\* the second compile, with no_cache set, called the provider although the
\* first compile had written the entry its lookup would have found
C34_Witness ==
    /\ calls = 2 /\ last.valid /\ last.req.no_cache /\ needs_llm(last.req)
    /\ last.out.ok /\ ~last.out.cache_hit
    /\ Indices(last.log, "call") # {}
    /\ IsSome(get(cache,
                  lookup_key(last.req,
                             Descriptor(Unwrap(last.out.provider),
                                        ConfiguredModel(
                                           Unwrap(last.out.provider))))))

\* ----------------------------------------------------------------- C35
\* the step is the evaluation that ended the input in an output
EvalSucceeded == turn.pc = "eval" /\ turn'.pc = "prompt"

\* the two histories have one length, at most REPL_HISTORY_LIMIT; they
\* change only by the evaluation that succeeds, which pushes `statement` and
\* the snippet it ran
HistoriesPairedBy(statement) ==
    /\ Len(session'.statement_history) = Len(session'.js_history)
    /\ Len(session'.statement_history) <= REPL_HISTORY_LIMIT
    /\ IF EvalSucceeded
       THEN /\ session'.statement_history =
                  push_bounded(session.statement_history, statement,
                               REPL_HISTORY_LIMIT)
            /\ session'.js_history =
                  push_bounded(session.js_history, turn.candidate_js,
                               REPL_HISTORY_LIMIT)
       ELSE /\ session'.statement_history = session.statement_history
            /\ session'.js_history = session.js_history

IntroducedNames(globals) ==
    {n \in globals : n \notin BaselineGlobals /\ ~starts_with_klumo(n)}

\* C36: in every reachable state of a session the tracked bindings hold no
\* name of the baseline snapshot and no internally prefixed name; after a
\* successful execution whose read of the global names succeeds they are
\* the engine's global names without the baseline and without the
\* internally prefixed names, and they stay as they were when that read
\* fails.
C36_TrackedBindings ==
    [][session.valid =>
        /\ session'.known_bindings \cap BaselineGlobals = {}
        /\ \A n \in session'.known_bindings : ~starts_with_klumo(n)
        /\ (EvalSucceeded /\ turn'.scope_read = "ok") =>
              session'.known_bindings = IntroducedNames(session'.globals)
        /\ (EvalSucceeded /\ turn'.scope_read = "failed") =>
              session'.known_bindings = session.known_bindings]_vars

\* the first input left the name b behind although it failed; the second
\* one defined a and the web status: a and b are tracked, the baseline name
\* and the prefixed name are not
C36_Witness ==
    /\ session.valid /\ EndedInSuccess /\ turn.scope_read = "ok"
    /\ session.globals = {"console", "a", "b", "__klumo_web_status"}
    /\ session.known_bindings = {"a", "b"}

\* ----------------------------------------------------------------- C37
\* a line is read in a session that uses the cache
CachedReadLine ==
    /\ session.valid /\ ~session.config.no_cache
    /\ turn.pc = "prompt" /\ session'.inputs = session.inputs + 1

\* C37: the cache key does not depend on the scope context.  In an
\* interactive session with caching enabled, an input whose text, source
\* identifier, language hint, provider and model equal those of an earlier
\* successfully translated input is answered from the cache (cache_hit =
\* true, no provider call, the JavaScript of the earlier translation),
\* whatever the bindings, the histories or the status text have become.
C37_ScopeContextNotInKey ==
    [][(CachedReadLine /\ IsSome(turn.compiled)
          /\ turn'.input = turn.input) =>
        /\ turn'.initial.cache_hit
        /\ turn'.initial.provider_calls = 0
        /\ turn'.compiled = turn.compiled
        /\ cache' = cache]_vars

\* the second input repeats the first after its evaluation defined a and
\* filled the histories and the web daemon came up: the request carried
\* another scope context than the first and was answered from the cache
C37_Witness ==
    /\ session.valid /\ ~session.config.no_cache /\ session.inputs = 2
    /\ turn.input = <<"show a">>
    /\ turn.before.statement_history = <<turn.input>>
    /\ turn.before.js_history = <<JS_one>>
    /\ turn.before.known_bindings = {"a"}
    /\ session.web_active
    /\ turn.initial.scope_context =
          Some(<<TXT_bindings_prefix, "a", TXT_bindings_suffix, "\n\n",
                 TXT_statements_header, "1", ". ", "show a", "\n\n",
                 TXT_js_header, "1", ". ", "1", "\n\n">> \o TXT_web_running)
    /\ turn.initial.cache_hit /\ turn.initial.provider_calls = 0
    /\ turn.compiled = Some(JS_one)

\* ----------------------------------------------------------------- C38
\* failure texts of every probable cause, recoverable and not
FailureTexts ==
    {<<MSG_eval_failed>>, <<MSG_eval_type>>, <<MSG_eval_syntax>>,
     <<MSG_eval_other>>, <<MSG_api_key>>, <<MSG_unknown_provider>>,
     <<"LLM routing failed after", MSG_ollama_unreachable>>}

\* the failures of another probable cause that are non-recoverable exactly
\* if this one is
OfOtherCause(err_text) ==
    {e \in FailureTexts :
        /\ probable_cause(e) # probable_cause(err_text)
        /\ is_non_recoverable_self_heal_error(e)
             = is_non_recoverable_self_heal_error(err_text)}

\* what the outside world can answer to the repair compile of a failure
HealEnvs(s, t, generated_js, err_text, c) ==
    ReplEnvs(s.config, ReplHealRequest(s, t, generated_js, err_text), c)

\* The sessions that have their last line to read, and the runs: one input
\* goes through both repair loops in every configuration.
LastInputInit == ReplInitAfter(MaxInputs - 1) \/ RunInit

SpecLastInput == LastInputInit /\ [][RepairNext]_vars

\* C38: the probable-cause classification of an error never influences the
\* control flow of the interactive repair loops.  Had the failure under
\* repair been one of another probable cause that agrees with it on the
\* non-recoverable predicate, the round would, under the same answers of
\* the outside world, lead to the same turn but for the failure text: the
\* same position, attempt counter, numbers of repairs and executions,
\* candidate and outcome.
C38_CauseDoesNotSteer ==
    LET same_translation(env, base, others) ==
            \A e2 \in others :
               env \in HealEnvs(session, turn, None, e2, cache) =>
                 translation_round(session,
                                   [turn EXCEPT !.initial_error = e2],
                                   cache, env).turn
                   = [base EXCEPT !.initial_error = e2]
        same_runtime(env, base, others) ==
            \A e2 \in others :
               env \in HealEnvs(session, turn, Some(turn.candidate_js), e2,
                                cache) =>
                 runtime_round(session, [turn EXCEPT !.runtime_error = e2],
                               cache, env).turn
                   = [base EXCEPT !.runtime_error = e2]
    IN session.valid =>
      /\ (turn.pc = "heal_translation" /\ WithinModel(turn.attempt)) =>
            \A others \in {OfOtherCause(turn.initial_error)} :
            \A env \in HealEnvs(session, turn, None, turn.initial_error,
                                cache) :
               \A base \in {translation_round(session, turn, cache,
                                               env).turn} :
                  same_translation(env, base, others)
      /\ turn.pc = "heal_runtime" =>
            \A others \in {OfOtherCause(turn.runtime_error)} :
            \A env \in HealEnvs(session, turn, Some(turn.candidate_js),
                                turn.runtime_error, cache) :
               \A base \in {runtime_round(session, turn, cache, env).turn} :
                  same_runtime(env, base, others)

\* the second evaluation of an input failed with a type error after the
\* repair of a first failure; a reference error is of another cause and as
\* recoverable, and the outside world has an answer to either repair
C38_Witness ==
    /\ session.valid /\ turn.pc = "heal_runtime"
    /\ turn.runtime_error = <<MSG_eval_type>>
    /\ probable_cause(turn.runtime_error) = CAUSE_type
    /\ turn.evals = 2 /\ turn.runtime_heals = 1
    /\ <<MSG_eval_failed>> \in OfOtherCause(turn.runtime_error)
    /\ HealEnvs(session, turn, Some(turn.candidate_js), turn.runtime_error,
                cache)
         \cap HealEnvs(session, turn, Some(turn.candidate_js),
                       <<MSG_eval_failed>>, cache) # {}

\* --------------------------------- two processes, one cache directory
MaxCompiles == 2
Procs == {1, 2}

Q_javascript == "\"javascript\": "
Q_provider == "\"provider\": "
Q_model == "\"model\": "
Q_prompt_version == "\"prompt_version\": "
JsonMarks == {"{", Q_javascript, Q_provider, Q_model, Q_prompt_version, "}"}

\* serde_json::to_string_pretty(&payload): the bytes of the cache file
to_string_pretty(payload) ==
    <<"{", Q_javascript>> \o payload.javascript
    \o <<Q_provider>>
    \o (IF IsSome(payload.provider) THEN Unwrap(payload.provider)
        ELSE <<"null">>)
    \o <<Q_model>>
    \o (IF IsSome(payload.model) THEN Unwrap(payload.model) ELSE <<"null">>)
    \o <<Q_prompt_version>> \o payload.prompt_version \o <<"}">>

\* serde_json::from_str::<CachedResult>(&raw).ok() on the bytes: one object
\* with the four fields and nothing after it
from_bytes(raw) ==
    LET n == Len(raw)
        at(mark) == {i \in 1..n : raw[i] = mark}
        pp == Find(raw, <<Q_provider>>)
        pm == Find(raw, <<Q_model>>)
        pv == Find(raw, <<Q_prompt_version>>)
        field(from, to) == SubSeq(raw, from + 1, to - 1)
        option(text) == IF text = <<"null">> THEN None ELSE Some(text)
    IN IF /\ n >= 6
          /\ at("{") = {1} /\ at(Q_javascript) = {2} /\ at("}") = {n}
          /\ at(Q_provider) = {pp} /\ at(Q_model) = {pm}
          /\ at(Q_prompt_version) = {pv}
          /\ 2 < pp /\ pp + 1 < pm /\ pm + 1 < pv /\ pv + 1 < n
       THEN Some(PayloadFile(field(2, pp), option(field(pp, pm)),
                             option(field(pm, pv)), field(pv, n)))
       ELSE None

\* what both processes compile: one TypeScript source, provider Ollama
RaceRequest ==
    Request(TEXT_hello, ID_a_ts, None, None, FALSE, SelOllama, None, FALSE)

RaceKey == lookup_key(RaceRequest, Descriptor(Ollama, ollama_model))

\* the cache directory as a lookup finds it: no file, or the file with what
\* its bytes parse to
RaceCache(file) ==
    IF ~IsSome(file) THEN EmptyCache
    ELSE WriteFile(EmptyCache, RaceKey,
                   IF IsSome(from_bytes(Unwrap(file)))
                   THEN Unwrap(from_bytes(Unwrap(file)))
                   ELSE DamagedFile("garbage"))

JS_two_statements == <<"1", ";", "2">>

\* the Ollama service fails, or answers a short or a longer script
RaceAnswers == {Err(MSG_ollama_unreachable), Ok(JS_one), Ok(JS_two_statements)}

RaceInit ==
    /\ race = [valid |-> TRUE, file |-> None, written |-> None, stored |-> {},
               procs |-> [p \in Procs |->
                            [pc |-> "lookup", compiles |-> 1,
                             answer |-> None, result |-> None,
                             out |-> None]]]
    /\ IdleExcept({"race"})

RaceStep(p, proc, file, written, stored) ==
    /\ race' = [race EXCEPT !.procs[p] = proc, !.file = file,
                            !.written = written, !.stored = stored]
    /\ UnchangedExcept({"race"})

\* compile, lines 212-230: the lookup reads the file in one piece
RaceLookup(p) ==
    /\ race.valid /\ race.procs[p].pc = "lookup"
    /\ \E lk \in {lookup(RaceRequest, RaceCache(race.file), TRUE)} :
          RaceStep(p,
                   IF lk.hit
                   THEN [race.procs[p] EXCEPT
                           !.pc = "done",
                           !.out = Some(Returned(Unwrap(lk.cached)))]
                   ELSE [race.procs[p] EXCEPT !.pc = "translate"],
                   race.file, race.written, race.stored)

\* compile, lines 232-250: the router is called
RaceTranslate(p) ==
    /\ race.valid /\ race.procs[p].pc = "translate"
    /\ \E answer \in RaceAnswers :
       \E translated \in {translate(SelOllama, TRUE, Only(Ollama, answer),
                                    None)} :
          RaceStep(p,
                   IF translated.ok
                   THEN [race.procs[p] EXCEPT
                           !.pc = "create", !.answer = Some(answer),
                           !.result =
                               Some(CompileResult(translated.javascript,
                                                  Some(translated.provider),
                                                  Some(translated.model),
                                                  PROMPT_VERSION, FALSE))]
                   ELSE [race.procs[p] EXCEPT
                           !.pc = "done", !.answer = Some(answer),
                           !.out = Some(Failed([kind |-> "routing",
                                                msg |-> "LLM routing failed",
                                                attempts |->
                                                    translated.attempts]))],
                   race.file, race.written, race.stored)

\* put, line 141: fs::write opens the file, which creates or truncates it
RaceCreate(p) ==
    /\ race.valid /\ race.procs[p].pc = "create"
    /\ RaceStep(p, [race.procs[p] EXCEPT !.pc = "write"], Some(<<>>),
                race.written, race.stored)

\* the bytes written at the start of a file; what lies beyond them stays
WriteAt0(old, bytes) ==
    bytes \o (IF Len(old) > Len(bytes)
              THEN SubSeq(old, Len(bytes) + 1, Len(old)) ELSE <<>>)

\* put, line 141, and compile, lines 260-263: fs::write writes the payload from
\* the start of the file it opened, and the compile returns the result
RaceWrite(p) ==
    /\ race.valid /\ race.procs[p].pc = "write"
    /\ \E result \in {Unwrap(race.procs[p].result)} :
       \E w \in {put(EmptyCache, RaceKey, result, "ok")} :
          RaceStep(p,
                   [race.procs[p] EXCEPT !.pc = "done",
                                         !.out = Some(Returned(result))],
                   Some(WriteAt0(Unwrap(race.file),
                                 to_string_pretty(w.cache[RaceKey]))),
                   Some(result), race.stored \cup {result})

\* the process compiles the source once more
RaceAgain(p) ==
    /\ race.valid /\ race.procs[p].pc = "done"
    /\ race.procs[p].compiles < MaxCompiles
    /\ RaceStep(p, [race.procs[p] EXCEPT !.pc = "lookup", !.compiles = @ + 1,
                                         !.answer = None, !.result = None,
                                         !.out = None],
                race.file, race.written, race.stored)

RaceNext ==
    \E p \in Procs :
       \/ RaceLookup(p) \/ RaceTranslate(p) \/ RaceCreate(p)
       \/ RaceWrite(p) \/ RaceAgain(p)

SpecRace == RaceInit /\ [][RaceNext]_vars

\* ----------------------------------------------------------------- C39
\* what a provider's answer becomes
ProvidedJs ==
    {normalize_js_output(a.val).val : a \in {b \in RaceAnswers : b.ok}}

\* every compile that has returned gave a complete translation of the
\* provider or a complete entry that was written before, and failed only
\* if its own provider call failed
CompilesComplete ==
    \A p \in Procs :
       LET proc == race.procs[p] IN
       (proc.pc = "done") =>
          LET out == Unwrap(proc.out) IN
          IF out.ok
          THEN /\ out.javascript \in ProvidedJs
               /\ IF out.cache_hit
                  THEN \E r \in race.stored :
                          out = Returned([r EXCEPT !.cache_hit = TRUE])
                  ELSE out = Returned(Unwrap(proc.result))
          ELSE IsSome(proc.answer) /\ ~Unwrap(proc.answer).ok

\* no process is in a compile
AllReturned == \A p \in Procs : race.procs[p].pc = "done"

\* after both finished, the entry is the result of the last writer
LastWriterWins ==
    (AllReturned /\ IsSome(race.written)) =>
       get(RaceCache(race.file), RaceKey)
         = Some([Unwrap(race.written) EXCEPT !.cache_hit = TRUE])

\* C39: with two processes concurrently compiling against the same cache
\* directory, the cache writes being unlocked and non-atomic (truncate,
\* then write), every compile in either process returns either a complete
\* provider-produced translation or a complete previously written entry,
\* never a partially written entry and never a failure caused by a
\* concurrent write; after both finish, the entry for a key is the result
\* of the last writer.
C39_ConcurrentCompiles ==
    race.valid => CompilesComplete /\ LastWriterWins
====
